---------------------------- MODULE Spec2Model ----------------------------
(***************************************************************************)
(* Weather-aware routing engine (VinhTuyRouting).                          *)
(*                                                                         *)
(* Three state machines share this module:                                 *)
(*   Spec          astar_search run step by step on an input graph with a  *)
(*                 per-query overlay (blocked_edges, penalty_map);         *)
(*   SpecBuild     the graph construction pipeline of build_graph_from_osm *)
(*                 (filter_valid_ways, build_raw_graph, find_largest_scc,  *)
(*                 filter_to_lscc, compress_graph, and compress_graph      *)
(*                 applied a second time);                                 *)
(*   SpecResolver  FastRoutingService.find_affected_edges_fast, one        *)
(*                 feature per step.                                       *)
(*                                                                         *)
(* Units.  Nodes lie on the equator at integer longitudes, so that         *)
(* haversine_distance is |lon1 - lon2| arcs of one degree; every length    *)
(* is a whole number of such arcs.  Coefficients (C_HIGHWAY, C_CONTEXT,    *)
(* the heuristic's 0.7) are in hundredths and penalty multipliers in       *)
(* tenths, so a g-score is in units of 1e-5 arc and all arithmetic is      *)
(* exact.                                                                  *)
(***************************************************************************)
EXTENDS Integers, Sequences, FiniteSets, TLC

VARIABLES
    \* ---- astar_search (fast_pathfinding_service.py) ----
    graph,            \* LightGraph argument: [nodes, adjacency]
    start_id,
    end_id,
    weather,
    penalty_map,      \* Dict[(from, to)] -> multiplier (tenths)
    blocked_edges,    \* Set[(from, to)]
    open_set,         \* heap of (f_score, counter, node_id)
    came_from,
    came_from_edge,
    g_score,
    open_set_hash,
    closed_set,
    nodes_visited,
    counter,
    pc,               \* "start" | "loop" | "done" | "idle"
    budget_expired,   \* time.perf_counter() has passed the query's budget
    normal_cost,      \* cost the same query returned in normal weather, if asked
    result,           \* PathResult
    \* ---- build_graph_from_osm (graph_builder.py) ----
    osm_data,         \* OSMData: [nodes, ways]
    build_pc,         \* position in build_graph_from_osm, or "idle"
    valid_ways,
    raw_graph,
    lscc_nodes,
    lscc_graph,
    final_graph,
    recompressed,     \* compress_graph(final_graph)
    \* ---- find_affected_edges_fast (fast_pathfinding_service.py) ----
    blocking_geometries, \* RouteRequest.blocking_geometries
    flood_areas,      \* RouteRequest.flood_areas
    geometries,       \* the features handed to the resolver
    geom_index,       \* position of "for geom_dict in geometries"
    blocked,
    multipliers,      \* the local penalty_map of the resolver (tenths)
    resolver_pc,      \* "request" | "start" | "loop" | "returned" | "idle"
    \* ---- the service and unified_route (main.py, fast_routing.py) ----
    endpoint_replies, \* what each Overpass endpoint answers, in list order
    endpoints_tried,  \* the endpoints fetch_from_overpass has posted to
    http_response,    \* fetch_from_overpass's local `response`, or "none"
    cache_file,       \* the cache file of the bbox: {} or {its OSMData}
    fetch_result,     \* fetch_from_overpass: "none" | "data" (osm_data)
    service,          \* _routing_service: "unset" | "none" | "ready"
    kdtree,           \* graph._kdtree: {} for None, {ids} once built
    strtree,          \* graph._strtree: {} for None, {keys} once built
    origin,           \* RouteRequest.origin
    destination,      \* RouteRequest.destination
    origin_resolved,  \* node id of the resolved origin, 0 before
    dest_resolved,
    route_pc,         \* position in lifespan / unified_route, or "idle"
    response,         \* [status, detail, path, distance] of the request
    \* ---- linear_interpolate_house_number (lite_geocoding_service.py) ----
    houses,           \* the addresses rows of the street, in query order
    house_number,     \* the number asked for
    interpolated,     \* the InterpolatedPoint returned, NoPointFound for None
    interp_pc         \* "call" | "returned" | "idle"

astarVars == <<graph, start_id, end_id, weather, penalty_map, blocked_edges,
               budget_expired, normal_cost,
               open_set, came_from, came_from_edge, g_score, open_set_hash,
               closed_set, nodes_visited, counter, pc, result>>

buildVars == <<osm_data, build_pc, valid_ways, raw_graph, lscc_nodes,
               lscc_graph, final_graph, recompressed>>

resolverVars == <<blocking_geometries, flood_areas, geometries, geom_index,
                  blocked, multipliers, resolver_pc>>

fetchVars == <<endpoint_replies, endpoints_tried, http_response, cache_file>>

routeVars == <<fetchVars, fetch_result, service, kdtree, strtree, origin, destination,
               origin_resolved, dest_resolved, route_pc, response>>

geocodeVars == <<houses, house_number, interpolated, interp_pc>>

vars == <<astarVars, buildVars, resolverVars, routeVars, geocodeVars>>

-----------------------------------------------------------------------------
(* Bounds of the model *)

\* Node ids are 1 .. NumNodes.
NumNodes == 4

\* An input graph of the search holds at most MaxEdges edges of EdgePool.
MaxEdges == 5

\* An OSM extract holds at most MaxWays ways.
MaxWays == 2

\* A query carries at most MaxFeatures obstruction features.
MaxFeatures == 2

\* Rows of a street's houses, and the greatest house number.
MaxHouses == 3

MaxNumber == 4

NodeIds == 1 .. NumNodes

-----------------------------------------------------------------------------
(* Generic helpers *)

Abs(x) == IF x < 0 THEN -x ELSE x

Max2(a, b) == IF a >= b THEN a ELSE b

SetMin(S) == CHOOSE x \in S : \A y \in S : x <= y

RECURSIVE SeqSum(_)
SeqSum(s) == IF s = <<>> THEN 0 ELSE Head(s) + SeqSum(Tail(s))

Reverse(s) == [i \in 1 .. Len(s) |-> s[Len(s) + 1 - i]]

RECURSIVE SetToSortedSeq(_)
\* Iteration over a set or dict of small integer ids: ascending id.
SetToSortedSeq(S) ==
    IF S = {} THEN <<>>
    ELSE LET m == SetMin(S) IN <<m>> \o SetToSortedSeq(S \ {m})

\* d[k] = v, adding k to the dict when absent.
DictPut(d, k, v) == [x \in (DOMAIN d) \cup {k} |-> IF x = k THEN v ELSE d[x]]

\* d.pop(k, None)
DictPop(d, k) == [x \in (DOMAIN d) \ {k} |-> d[x]]

EmptyDict == [x \in {} |-> 0]

-----------------------------------------------------------------------------
(* Highway configuration: graph_builder.py *)

HighwayTypes ==
    {"motorway", "motorway_link", "trunk", "trunk_link", "primary",
     "primary_link", "secondary", "secondary_link", "tertiary",
     "tertiary_link", "residential", "living_street", "unclassified",
     "service"}

ALLOWED_HIGHWAYS == HighwayTypes

EXCLUDED_HIGHWAYS ==
    {"abandoned", "construction", "proposed", "planned", "footway",
     "pedestrian", "path", "cycleway", "steps", "corridor", "elevator",
     "escalator", "bridleway", "track"}

\* hundredths
C_HIGHWAY ==
    [motorway |-> 70, motorway_link |-> 75, trunk |-> 75, trunk_link |-> 80,
     primary |-> 80, primary_link |-> 85, secondary |-> 100,
     secondary_link |-> 105, tertiary |-> 110, tertiary_link |-> 115,
     residential |-> 120, living_street |-> 130, unclassified |-> 120,
     service |-> 150]

\* hundredths
C_CONTEXT ==
    [normal |-> [k \in HighwayTypes |-> 100],
     rain |->
        [motorway |-> 105, motorway_link |-> 110, trunk |-> 110,
         trunk_link |-> 115, primary |-> 110, primary_link |-> 115,
         secondary |-> 120, secondary_link |-> 125, tertiary |-> 130,
         tertiary_link |-> 135, residential |-> 180, living_street |-> 200,
         unclassified |-> 150, service |-> 250],
     flood |->
        [motorway |-> 110, motorway_link |-> 120, trunk |-> 120,
         trunk_link |-> 130, primary |-> 120, primary_link |-> 130,
         secondary |-> 150, secondary_link |-> 160, tertiary |-> 200,
         tertiary_link |-> 220, residential |-> 300, living_street |-> 400,
         unclassified |-> 250, service |-> 500]]

\* km/h
SPEED_LIMITS ==
    [motorway |-> 100, motorway_link |-> 60, trunk |-> 80, trunk_link |-> 50,
     primary |-> 60, primary_link |-> 40, secondary |-> 50,
     secondary_link |-> 35, tertiary |-> 40, tertiary_link |-> 30,
     residential |-> 30, living_street |-> 20, unclassified |-> 30,
     service |-> 20]

Weathers == DOMAIN C_CONTEXT

-----------------------------------------------------------------------------
(* Data classes and LightGraph: graph_builder.py *)

\* GraphNode: node id n lies at (lat, lon) = (0, n).
NodeLon(n) == n
NodeLat(n) == 0
NodePoint(n) == <<NodeLon(n), NodeLat(n)>>

\* haversine_distance, in degree arcs: exact for two points of the equator
\* (lat1 = lat2 = 0), where it is the difference of the longitudes.
haversine_distance(lat1, lon1, lat2, lon2) == Abs(lat2 - lat1) + Abs(lon2 - lon1)

GraphEdge(from_node, to_node, way_id, length, highway_type, geometry) ==
    [from_node |-> from_node, to_node |-> to_node, way_id |-> way_id,
     length |-> length, highway_type |-> highway_type,
     speed |-> SPEED_LIMITS[highway_type],
     c_highway |-> C_HIGHWAY[highway_type], geometry |-> geometry]

\* GraphEdge.get_weight, in 1e-4 arc.
get_weight(edge, w) ==
    LET ctx == IF w \in DOMAIN C_CONTEXT THEN C_CONTEXT[w] ELSE C_CONTEXT["normal"]
        c_context == IF edge.highway_type \in DOMAIN ctx
                     THEN ctx[edge.highway_type] ELSE 100
    IN edge.length * edge.c_highway * c_context

\* LightGraph(): no nodes, no edges.
EmptyGraph == [nodes |-> {}, adjacency |-> EmptyDict]

has_node_mutant(g, node_id) == TRUE
has_node(g, node_id) == node_id \in g.nodes

\* LightGraph.get_neighbors: the (neighbor, edge) list of a node, in
\* insertion order; the neighbor is edge.to_node.
get_neighbors(g, node_id) ==
    IF node_id \in DOMAIN g.adjacency THEN g.adjacency[node_id] ELSE <<>>

\* LightGraph.add_node
add_node(g, n) ==
    [nodes |-> g.nodes \cup {n},
     adjacency |-> IF n \in DOMAIN g.adjacency THEN g.adjacency
                   ELSE DictPut(g.adjacency, n, <<>>)]

\* LightGraph.add_edge (reverse_adjacency is derived, see reverse_neighbors)
add_edge(g, edge) ==
    [nodes |-> g.nodes,
     adjacency |-> DictPut(g.adjacency, edge.from_node,
                           Append(get_neighbors(g, edge.from_node), edge))]

RECURSIVE AddEdges(_, _)
AddEdges(g, es) ==
    IF es = <<>> THEN g ELSE AddEdges(add_edge(g, Head(es)), Tail(es))

RECURSIVE AddNodes(_, _)
AddNodes(g, ns) ==
    IF ns = <<>> THEN g ELSE AddNodes(add_node(g, Head(ns)), Tail(ns))

AllEdges(g) ==
    UNION {{g.adjacency[n][i] : i \in 1 .. Len(g.adjacency[n])} : n \in DOMAIN g.adjacency}

RECURSIVE ConcatAdj(_, _)
ConcatAdj(g, ns) ==
    IF ns = <<>> THEN <<>>
    ELSE g.adjacency[Head(ns)] \o ConcatAdj(g, Tail(ns))

\* Every edge of the graph, source nodes in dict order.
EdgeSeq(g) == ConcatAdj(g, SetToSortedSeq(DOMAIN g.adjacency))

\* LightGraph.reverse_adjacency[node_id]: the edges that end at node_id.
reverse_neighbors(g, node_id) ==
    SelectSeq(EdgeSeq(g), LAMBDA e : e.to_node = node_id)


-----------------------------------------------------------------------------
(* Graph construction pipeline: graph_builder.py *)

TagGet(tags, key, default) == IF key \in DOMAIN tags THEN tags[key] ELSE default

\* is_oneway
is_oneway_mutant(tags) == TagGet(tags, "oneway", "no") \in {"yes", "true", "-1"}
is_oneway(tags) == TagGet(tags, "oneway", "no") \in {"yes", "1", "true", "-1"}

\* is_reverse_oneway
is_reverse_oneway(tags) == TagGet(tags, "oneway", "none") = "-1"

\* filter_valid_ways
filter_valid_ways(osm) ==
    SelectSeq(osm.ways,
              LAMBDA way : LET highway == TagGet(way.tags, "highway", "")
                           IN /\ highway # ""
                              /\ highway \notin EXCLUDED_HIGHWAYS
                              /\ highway \in ALLOWED_HIGHWAYS)

\* The edges build_raw_graph adds for the node pair (way.nodes[i],
\* way.nodes[i + 1]): lines 237-251.
SegmentEdges(g, way, i) ==
    LET from_id == way.nodes[i]
        to_id == way.nodes[i + 1]
        highway_type == TagGet(way.tags, "highway", "unclassified")
        length == haversine_distance(NodeLat(from_id), NodeLon(from_id),
                                     NodeLat(to_id), NodeLon(to_id))
        geometry == <<NodePoint(from_id), NodePoint(to_id)>>
        forward == GraphEdge(from_id, to_id, way.id, length, highway_type, geometry)
        backward == GraphEdge(to_id, from_id, way.id, length, highway_type,
                              Reverse(geometry))
    IN IF from_id \notin g.nodes \/ to_id \notin g.nodes THEN <<>>
       ELSE IF is_reverse_oneway(way.tags) THEN <<backward>>
       ELSE IF is_oneway(way.tags) THEN <<forward>>
       ELSE <<forward, backward>>

RECURSIVE WayEdges(_, _, _)
\* "for i in range(len(way.nodes) - 1)" from index i on.
WayEdges(g, way, i) ==
    IF i >= Len(way.nodes) THEN g
    ELSE WayEdges(AddEdges(g, SegmentEdges(g, way, i)), way, i + 1)

RECURSIVE AddWays(_, _)
AddWays(g, ways) ==
    IF ways = <<>> THEN g
    ELSE AddWays(WayEdges(g, Head(ways), 1), Tail(ways))

\* build_raw_graph
build_raw_graph(osm, ways) ==
    LET used_node_ids ==
            UNION {{ways[k].nodes[i] : i \in 1 .. Len(ways[k].nodes)} :
                     k \in 1 .. Len(ways)}
        present == SetToSortedSeq(used_node_ids \cap osm.nodes)
    IN AddWays(AddNodes(EmptyGraph, present), ways)

(* find_largest_scc: Kosaraju, both passes with an explicit stack *)

RECURSIVE dfs1(_, _, _, _)
\* The "while stack" loop of dfs1; the stack holds <<node, processed>> and
\* is popped at its end.  Yields <<visited, finish_order>>.
dfs1(g, stack, visited, finish_order) ==
    IF stack = <<>> THEN <<visited, finish_order>>
    ELSE LET top == stack[Len(stack)]
             rest == SubSeq(stack, 1, Len(stack) - 1)
             n == top[1]
         IN IF top[2] THEN dfs1(g, rest, visited, Append(finish_order, n))
            ELSE IF n \in visited THEN dfs1(g, rest, visited, finish_order)
            ELSE LET seen == visited \cup {n}
                     unseen == SelectSeq(get_neighbors(g, n),
                                         LAMBDA e : e.to_node \notin seen)
                 IN dfs1(g,
                         rest \o <<<<n, TRUE>>>>
                              \o [i \in 1 .. Len(unseen) |-> <<unseen[i].to_node, FALSE>>],
                         seen, finish_order)

RECURSIVE FinishOrder(_, _, _, _)
\* "for node_id in graph.nodes: if node_id not in visited: dfs1(node_id)"
FinishOrder(g, ns, visited, finish_order) ==
    IF ns = <<>> THEN finish_order
    ELSE IF Head(ns) \in visited THEN FinishOrder(g, Tail(ns), visited, finish_order)
    ELSE LET r == dfs1(g, <<<<Head(ns), FALSE>>>>, visited, finish_order)
         IN FinishOrder(g, Tail(ns), r[1], r[2])

\* The neighbours the second pass follows: those of the reverse graph.
SecondPassNeighborsMutant(g, n) ==
    [i \in 1 .. Len(get_neighbors(g, n)) |-> get_neighbors(g, n)[i].to_node]
SecondPassNeighbors(g, n) ==
    [i \in 1 .. Len(reverse_neighbors(g, n)) |-> reverse_neighbors(g, n)[i].from_node]

RECURSIVE dfs2(_, _, _, _)
\* The "while stack" loop of dfs2.  Yields <<visited, component>>.
dfs2(g, stack, visited, component) ==
    IF stack = <<>> THEN <<visited, component>>
    ELSE LET n == stack[Len(stack)]
             rest == SubSeq(stack, 1, Len(stack) - 1)
         IN IF n \in visited THEN dfs2(g, rest, visited, component)
            ELSE LET seen == visited \cup {n}
                 IN dfs2(g,
                         rest \o SelectSeq(SecondPassNeighbors(g, n),
                                           LAMBDA m : m \notin seen),
                         seen, Append(component, n))

RECURSIVE Components(_, _, _)
\* "for node_id in reversed(finish_order): if node_id not in visited:
\*  sccs.append(dfs2(node_id))"; order is reversed(finish_order).
Components(g, order, visited) ==
    IF order = <<>> THEN <<>>
    ELSE IF Head(order) \in visited THEN Components(g, Tail(order), visited)
    ELSE LET r == dfs2(g, <<Head(order)>>, visited, <<>>)
         IN <<r[2]>> \o Components(g, Tail(order), r[1])

RECURSIVE MaxByLen(_)
\* max(sccs, key=len): the first of the longest.
MaxByLen(sccs) ==
    IF Len(sccs) = 1 THEN sccs[1]
    ELSE LET best == MaxByLen(Tail(sccs))
         IN IF Len(Head(sccs)) >= Len(best) THEN Head(sccs) ELSE best

find_largest_scc(g) ==
    IF g.nodes = {} THEN {}
    ELSE LET ns == SetToSortedSeq(g.nodes)
             finish_order == FinishOrder(g, ns, {}, <<>>)
             sccs == Components(g, Reverse(finish_order), {})
             largest_scc == IF sccs # <<>> THEN MaxByLen(sccs) ELSE <<>>
         IN {largest_scc[i] : i \in 1 .. Len(largest_scc)}

\* filter_to_lscc
filter_to_lscc_mutant(g, lscc_set) == g
filter_to_lscc(g, lscc_set) ==
    LET kept == g.nodes \cap lscc_set
    IN [nodes |-> kept,
        adjacency |-> [n \in kept |->
                          SelectSeq(g.adjacency[n], LAMBDA e : e.to_node \in lscc_set)]]

(* compress_graph *)

\* Lines 360-372: exactly two distinct neighbours and one highway type
\* over all incident edges.
IsDegree2(g, node_id) ==
    LET out == get_neighbors(g, node_id)
        inc == reverse_neighbors(g, node_id)
        out_neighbors == {out[i].to_node : i \in 1 .. Len(out)}
        in_neighbors == {inc[i].from_node : i \in 1 .. Len(inc)}
        out_types == {out[i].highway_type : i \in 1 .. Len(out)}
        in_types == {inc[i].highway_type : i \in 1 .. Len(inc)}
    IN /\ Cardinality(out_neighbors \cup in_neighbors) = 2
       /\ Cardinality(out_types \cup in_types) = 1

degree_2_nodes(g) == {n \in g.nodes : IsDegree2(g, n)}

nodes_to_keep(g) == g.nodes \ degree_2_nodes(g)

\* "total_length += next_edge.length"
AddLengthMutant(total_length, next_edge) == total_length
AddLength(total_length, next_edge) == total_length + next_edge.length

\* "if next_edge.geometry: geometry.extend(next_edge.geometry[1:])"
ExtendGeometry(geometry, next_edge) ==
    IF next_edge.geometry # <<>> THEN geometry \o Tail(next_edge.geometry)
    ELSE geometry

\* "while current in degree_2_nodes"
ContinuesWalkMutant(g, current) == FALSE
ContinuesWalk(g, current) == current \in degree_2_nodes(g)

RECURSIVE ChainWalk(_, _, _, _)
\* The "while current in degree_2_nodes" loop: lines 390-399.
\* acc = [path_nodes, geometry, total_length].
ChainWalk(g, acc, current, prev) ==
    IF ~ContinuesWalk(g, current) THEN acc
    ELSE LET next_edges == SelectSeq(get_neighbors(g, current),
                                     LAMBDA e : e.to_node # prev)
         IN IF next_edges = <<>> THEN acc
            ELSE LET next_edge == next_edges[1]
                     next_node == next_edge.to_node
                 IN ChainWalk(g,
                              [path_nodes |-> Append(acc.path_nodes, next_node),
                               geometry |-> ExtendGeometry(acc.geometry, next_edge),
                               total_length |-> AddLength(acc.total_length, next_edge)],
                              next_node, current)

\* Lines 381-408 for one (neighbor_id, edge) of start_node.
\* cp = [compressed, processed_edges].
CompressEdge(g, cp, start_node, edge) ==
    LET neighbor_id == edge.to_node
    IN IF <<start_node, neighbor_id>> \in cp.processed_edges THEN cp
       ELSE LET acc == ChainWalk(g,
                                 [path_nodes |-> <<start_node, neighbor_id>>,
                                  geometry |-> edge.geometry,
                                  total_length |-> edge.length],
                                 neighbor_id, start_node)
                end_node == acc.path_nodes[Len(acc.path_nodes)]
            IN IF end_node \in nodes_to_keep(g)
               THEN [compressed |->
                        add_edge(cp.compressed,
                                 GraphEdge(start_node, end_node, edge.way_id,
                                           acc.total_length, edge.highway_type,
                                           acc.geometry)),
                     processed_edges |-> cp.processed_edges \cup {<<start_node, end_node>>}]
               ELSE cp

RECURSIVE CompressEdges(_, _, _, _)
CompressEdges(g, cp, start_node, es) ==
    IF es = <<>> THEN cp
    ELSE CompressEdges(g, CompressEdge(g, cp, start_node, Head(es)), start_node, Tail(es))

RECURSIVE CompressFrom(_, _, _)
\* "for start_node in nodes_to_keep"
CompressFrom(g, cp, starts) ==
    IF starts = <<>> THEN cp
    ELSE CompressFrom(g,
                      CompressEdges(g, cp, Head(starts), get_neighbors(g, Head(starts))),
                      Tail(starts))

compress_graph(g) ==
    LET keep == SetToSortedSeq(nodes_to_keep(g))
    IN CompressFrom(g,
                    [compressed |-> AddNodes(EmptyGraph, keep), processed_edges |-> {}],
                    keep).compressed

-----------------------------------------------------------------------------
(* A* search: fast_pathfinding_service.py *)

\* heuristic(node1, node2): haversine * 0.7, in 1e-5 arc.
HeuristicFactorMutant == 70 + 1
HeuristicFactor == 70

heuristic(node1, node2) ==
    haversine_distance(NodeLat(node1), NodeLon(node1), NodeLat(node2), NodeLon(node2))
        * HeuristicFactor * 100 * 10

\* Heap order of the (f_score, counter, node_id) tuples.
TupleLEMutant(a, b) ==
    \/ a[1] < b[1]
    \/ a[1] = b[1] /\ a[3] <= b[3]

\* Python's order on the heap's (f_score, counter, node_id) tuples
TupleLE(a, b) ==
    \/ a[1] < b[1]
    \/ a[1] = b[1] /\ a[2] < b[2]
    \/ a[1] = b[1] /\ a[2] = b[2] /\ a[3] <= b[3]

\* heapq.heappop: the least tuple of the heap.
heappop(heap) == CHOOSE e \in heap : \A o \in heap : TupleLE(e, o)

\* "if edge_key in blocked_edges: continue"
IsBlockedMutant(edge_key, banned) == FALSE
IsBlockedReversed(edge_key, banned) == <<edge_key[2], edge_key[1]>> \in banned
IsBlocked(edge_key, banned) == edge_key \in banned

\* "weight = edge.get_weight(weather); if edge_key in penalty_map:
\*  weight *= penalty_map[edge_key]", in 1e-5 arc.
edge_weight(edge, edge_key, w, penalties) ==
    IF edge_key \in DOMAIN penalties
    THEN get_weight(edge, w) * penalties[edge_key]
    ELSE get_weight(edge, w) * 10

\* "if neighbor_id not in open_set_hash": whether the improved neighbor
\* gets a heap entry.
PushesEntry(neighbor_id, hash) == neighbor_id \notin hash

\* "if neighbor_id in closed_set: continue"
SkipsClosedMutant(neighbor_id, closed) == FALSE
SkipsClosed(neighbor_id, closed) == neighbor_id \in closed

\* The scratch state of one search.
Scratch(os, cf, cfe, gs, osh, ctr) ==
    [open_set |-> os, came_from |-> cf, came_from_edge |-> cfe,
     g_score |-> gs, open_set_hash |-> osh, counter |-> ctr]

\* One pass of "for neighbor_id, edge in graph.get_neighbors(current)".
RelaxEdge(st, current, current_g, edge, closed) ==
    LET neighbor_id == edge.to_node
        edge_key == <<current, neighbor_id>>
        tentative_g == current_g + edge_weight(edge, edge_key, weather, penalty_map)
    IN IF SkipsClosed(neighbor_id, closed) THEN st
       ELSE IF IsBlocked(edge_key, blocked_edges) THEN st
       ELSE IF neighbor_id \notin DOMAIN st.g_score
               \/ tentative_g < st.g_score[neighbor_id]
       THEN LET f == tentative_g + heuristic(neighbor_id, end_id)
                push == PushesEntry(neighbor_id, st.open_set_hash)
            IN Scratch(IF push THEN st.open_set \cup {<<f, st.counter + 1, neighbor_id>>}
                               ELSE st.open_set,
                       DictPut(st.came_from, neighbor_id, current),
                       DictPut(st.came_from_edge, neighbor_id, edge),
                       DictPut(st.g_score, neighbor_id, tentative_g),
                       IF push THEN st.open_set_hash \cup {neighbor_id}
                               ELSE st.open_set_hash,
                       IF push THEN st.counter + 1 ELSE st.counter)
       ELSE st

RECURSIVE RelaxNeighbors(_, _, _, _, _)
RelaxNeighbors(st, current, current_g, nbrs, closed) ==
    IF nbrs = <<>> THEN st
    ELSE RelaxNeighbors(RelaxEdge(st, current, current_g, Head(nbrs), closed),
                        current, current_g, Tail(nbrs), closed)

RECURSIVE WalkBack(_, _)
\* "while current is not None: path.append(current);
\*  current = came_from.get(current)", then path.reverse()
WalkBack(cf, current) ==
    IF current \in DOMAIN cf THEN Append(WalkBack(cf, cf[current]), current)
    ELSE <<current>>

\* The edges _reconstruct_path_with_geometry accounts for: for each pair
\* (path[i], path[i+1]) the edge came_from_edge[path[i+1]], unless it is
\* missing or touches path[i] at neither end.
PathEdgeAtMutant(path, cfe, i) ==
    IF path[i] \in DOMAIN cfe THEN <<cfe[path[i]]>> ELSE <<>>
PathEdgeAt(path, cfe, i) ==
    LET from_node_id == path[i]
        to_node_id == path[i + 1]
    IN IF to_node_id \notin DOMAIN cfe THEN <<>>
       ELSE LET edge == cfe[to_node_id]
            IN IF edge.from_node # from_node_id /\ edge.to_node # from_node_id
               THEN <<>>
               ELSE <<edge>>

RECURSIVE PathEdgesFrom(_, _, _)
PathEdgesFrom(path, cfe, i) ==
    IF i >= Len(path) THEN <<>>
    ELSE PathEdgeAt(path, cfe, i) \o PathEdgesFrom(path, cfe, i + 1)

\* "if not geometry: geometry.extend(segment) else: ... if abs(last_p[0] -
\*  first_p[0]) < 1e-6 and abs(last_p[1] - first_p[1]) < 1e-6:
\*  geometry.extend(segment[1:]) else: geometry.extend(segment)"; the
\* coordinates are whole degrees, so within 1e-6 is equal.
MergeSegmentMutant(geometry, segment) == geometry \o segment
MergeSegment(geometry, segment) ==
    IF geometry = <<>> THEN segment
    ELSE IF geometry[Len(geometry)] = segment[1]
    THEN geometry \o Tail(segment)
    ELSE geometry \o segment

\* The fallback of lines 223-241: the two nodes' points, the first only
\* when nothing is accumulated yet.
AppendNodePoints(geometry, from_node_id, to_node_id) ==
    IF geometry = <<>> THEN <<NodePoint(from_node_id), NodePoint(to_node_id)>>
    ELSE Append(geometry, NodePoint(to_node_id))

\* Lines 243-267: the edge's polyline in the direction of travel, the
\* nodes' points when the edge has no polyline of two points.
OrientedSegment(edge, from_node_id, to_node_id) ==
    IF Len(edge.geometry) >= 2
    THEN IF edge.from_node = from_node_id THEN edge.geometry
         ELSE Reverse(edge.geometry)
    ELSE <<NodePoint(from_node_id), NodePoint(to_node_id)>>

RECURSIVE PathGeometryFrom(_, _, _, _)
\* The loop of lines 217-285 over the pairs (path[i], path[i+1]).
PathGeometryFrom(path, cfe, i, geometry) ==
    IF i >= Len(path) THEN geometry
    ELSE LET edges == PathEdgeAt(path, cfe, i)
         IN PathGeometryFrom(path, cfe, i + 1,
                IF edges = <<>>
                THEN AppendNodePoints(geometry, path[i], path[i + 1])
                ELSE MergeSegment(geometry,
                                  OrientedSegment(edges[1], path[i], path[i + 1])))

\* GraphEdge.travel_time: (length / 1000) / speed * 3600 seconds, in
\* 1/140000 of a second for a length in metres (8400 is the least common
\* multiple of the speed limits).
travel_time(edge) == edge.length * 60 * (8400 \div edge.speed)

\* _reconstruct_path_with_geometry: (path, geometry, distance, duration)
\* and the edges used.
reconstruct_path(cf, cfe, target) ==
    LET path == WalkBack(cf, target)
        edges == PathEdgesFrom(path, cfe, 1)
    IN [path |-> path, edges |-> edges,
        geometry |-> PathGeometryFrom(path, cfe, 1, <<>>),
        distance |-> SeqSum([i \in 1 .. Len(edges) |-> edges[i].length]),
        duration |-> SeqSum([i \in 1 .. Len(edges) |-> travel_time(edges[i])])]

\* PathResult
PathResult(success, path, edges, distance, duration, geometry, error, visited) ==
    [success |-> success, path |-> path, edges |-> edges,
     distance |-> distance, duration |-> duration, geometry |-> geometry,
     error |-> error,
     stats |-> [nodes_visited |-> visited]]

NoResult == PathResult(FALSE, <<>>, <<>>, 0, 0, <<>>, "none", 0)

(* Inputs of the search *)

\* A node id that no graph and no OSM node table holds.
MissingNode == NumNodes + 1

Edge2(u, v, len, type, lons) ==
    GraphEdge(u, v, 0, len, type, [i \in 1 .. Len(lons) |-> <<lons[i], 0>>])

\* Candidate edges of an input graph, each with its polyline's longitudes.
EdgePool ==
    << Edge2(1, 2, 1, "residential", <<1, 2>>),
       Edge2(1, 3, 4, "residential", <<1, 4, 3>>),
       Edge2(1, 4, 3, "service", <<1, 4>>),
       Edge2(2, 3, 1, "residential", <<2, 3>>),
       Edge2(3, 4, 1, "residential", <<3, 4>>),
       Edge2(2, 1, 1, "residential", <<2, 1>>),
       Edge2(1, 2, 3, "primary", <<1, 3, 2>>),
       Edge2(3, 2, 2, "living_street", <<3, 2>>) >>

\* The graph over NodeIds holding the pool's edges with indices in sub.
PoolGraph(sub) ==
    AddEdges(AddNodes(EmptyGraph, SetToSortedSeq(NodeIds)),
             SelectSeq(EdgePool, LAMBDA e : \E i \in sub : EdgePool[i] = e))

BlockedChoices == {{}, {<<1, 2>>}, {<<3, 4>>}}

\* multipliers in tenths: 3.0 and 6.0
PenaltyChoices ==
    {EmptyDict, [k \in {<<3, 4>>} |-> 30], [k \in {<<3, 4>>} |-> 60],
     [k \in {<<1, 2>>} |-> 30]}

AstarIdle ==
    /\ graph = EmptyGraph /\ start_id = 0 /\ end_id = 0 /\ weather = "normal"
    /\ penalty_map = EmptyDict /\ blocked_edges = {}
    /\ open_set = {} /\ came_from = EmptyDict /\ came_from_edge = EmptyDict
    /\ g_score = EmptyDict /\ open_set_hash = {} /\ closed_set = {}
    /\ nodes_visited = 0 /\ counter = 0 /\ pc = "idle" /\ result = NoResult
    /\ budget_expired = FALSE /\ normal_cost = {}

AstarInit ==
    /\ \E sub \in SUBSET (1 .. Len(EdgePool)) :
          /\ Cardinality(sub) <= MaxEdges
          /\ graph = PoolGraph(sub)
    /\ start_id \in NodeIds \cup {MissingNode}
    /\ end_id \in NodeIds \cup {MissingNode}
    /\ weather \in Weathers
    /\ penalty_map \in PenaltyChoices
    /\ blocked_edges \in BlockedChoices
    /\ open_set = {} /\ came_from = EmptyDict /\ came_from_edge = EmptyDict
    /\ g_score = EmptyDict /\ open_set_hash = {} /\ closed_set = {}
    /\ nodes_visited = 0 /\ counter = 0 /\ pc = "start" /\ result = NoResult
    /\ budget_expired = FALSE /\ normal_cost = {}

inputVars == <<graph, start_id, end_id, weather, penalty_map, blocked_edges,
               budget_expired, normal_cost>>

\* Lines 344-366: the endpoint check and the initial scratch.
AstarStart ==
    /\ pc = "start"
    /\ IF ~has_node(graph, start_id) \/ ~has_node(graph, end_id)
       THEN /\ pc' = "done"
            /\ result' = PathResult(FALSE, <<>>, <<>>, 0, 0, <<>>, "unknown_endpoint", 0)
            /\ UNCHANGED <<open_set, g_score, open_set_hash>>
       ELSE /\ pc' = "loop"
            /\ open_set' = {<<0, 0, start_id>>}
            /\ g_score' = DictPut(EmptyDict, start_id, 0)
            /\ open_set_hash' = {start_id}
            /\ UNCHANGED result
    /\ UNCHANGED <<inputVars, came_from, came_from_edge, closed_set,
                   nodes_visited, counter>>
    /\ UNCHANGED <<buildVars, resolverVars, routeVars, geocodeVars>>

\* One pass of "while open_set" that pops the target: lines 369-397.
AstarReturnPath ==
    /\ pc = "loop" /\ open_set # {}
    /\ LET current == heappop(open_set)[3]
           rec == reconstruct_path(came_from, came_from_edge, end_id)
       IN /\ current \notin closed_set
          /\ current = end_id
          /\ open_set' = open_set \ {heappop(open_set)}
          /\ open_set_hash' = open_set_hash \ {current}
          /\ nodes_visited' = nodes_visited + 1
          /\ result' = PathResult(TRUE, rec.path, rec.edges, rec.distance,
                                  rec.duration, rec.geometry,
                                  "none", nodes_visited + 1)
          /\ pc' = "done"
    /\ UNCHANGED <<inputVars, came_from, came_from_edge, g_score, closed_set, counter>>
    /\ UNCHANGED <<buildVars, resolverVars, routeVars, geocodeVars>>

\* One pass of "while open_set" that pops another node: lines 369-375 and
\* 399-432 (an entry of a closed node is dropped: lines 371-372).
AstarExpand ==
    /\ pc = "loop" /\ open_set # {}
    /\ LET top == heappop(open_set)
           current == top[3]
       IN /\ current \notin closed_set => current # end_id
          /\ IF current \in closed_set
             THEN /\ open_set' = open_set \ {top}
                  /\ UNCHANGED <<came_from, came_from_edge, g_score, open_set_hash,
                                 closed_set, nodes_visited, counter>>
             ELSE LET st == RelaxNeighbors(
                                Scratch(open_set \ {top}, came_from, came_from_edge,
                                        g_score, open_set_hash \ {current}, counter),
                                current, g_score[current],
                                get_neighbors(graph, current),
                                closed_set \cup {current})
                  IN /\ open_set' = st.open_set
                     /\ came_from' = st.came_from
                     /\ came_from_edge' = st.came_from_edge
                     /\ g_score' = st.g_score
                     /\ open_set_hash' = st.open_set_hash
                     /\ counter' = st.counter
                     /\ closed_set' = closed_set \cup {current}
                     /\ nodes_visited' = nodes_visited + 1
    /\ UNCHANGED <<inputVars, pc, result>>
    /\ UNCHANGED <<buildVars, resolverVars, routeVars, geocodeVars>>

\* The open set is empty: lines 434-439.
AstarNoPath ==
    /\ pc = "loop" /\ open_set = {}
    /\ result' = PathResult(FALSE, <<>>, <<>>, 0, 0, <<>>, "no_path", nodes_visited)
    /\ pc' = "done"
    /\ UNCHANGED <<inputVars, open_set, came_from, came_from_edge, g_score,
                   open_set_hash, closed_set, nodes_visited, counter>>
    /\ UNCHANGED <<buildVars, resolverVars, routeVars, geocodeVars>>

\* Candidate edges of a graph of motorways and service roads.
WeatherPool ==
    << Edge2(1, 2, 3, "service", <<1, 3, 2>>),
       Edge2(1, 2, 1, "motorway", <<1, 2>>),
       Edge2(2, 3, 1, "motorway", <<2, 3>>),
       Edge2(3, 4, 1, "motorway", <<3, 4>>),
       Edge2(1, 3, 6, "motorway", <<1, 4, 3>>),
       Edge2(1, 4, 3, "service", <<1, 4>>),
       Edge2(4, 1, 3, "service", <<4, 1>>) >>

\* A query asked in normal weather, to be asked again in flood.
WeatherInit ==
    /\ \E sub \in SUBSET (1 .. Len(WeatherPool)) :
          /\ Cardinality(sub) <= MaxEdges
          /\ graph = AddEdges(AddNodes(EmptyGraph, SetToSortedSeq(NodeIds)),
                              SelectSeq(WeatherPool,
                                        LAMBDA e : \E i \in sub : WeatherPool[i] = e))
    /\ start_id \in NodeIds /\ end_id \in NodeIds
    /\ weather = "normal"
    /\ penalty_map \in PenaltyChoices
    /\ blocked_edges \in BlockedChoices
    /\ open_set = {} /\ came_from = EmptyDict /\ came_from_edge = EmptyDict
    /\ g_score = EmptyDict /\ open_set_hash = {} /\ closed_set = {}
    /\ nodes_visited = 0 /\ counter = 0 /\ pc = "start" /\ result = NoResult
    /\ budget_expired = FALSE /\ normal_cost = {}

\* astar_search is called again with the same graph, endpoints and overlay
\* and weather = "flood"; the weighted cost of the path it returned in
\* normal weather is kept for comparison.
SearchAgainInFlood ==
    /\ pc = "done" /\ weather = "normal" /\ result.success
    /\ normal_cost' =
          {SeqSum([i \in 1 .. Len(result.edges) |->
                      edge_weight(result.edges[i],
                                  <<result.edges[i].from_node, result.edges[i].to_node>>,
                                  weather, penalty_map)])}
    /\ weather' = "flood"
    /\ open_set' = {} /\ came_from' = EmptyDict /\ came_from_edge' = EmptyDict
    /\ g_score' = EmptyDict /\ open_set_hash' = {} /\ closed_set' = {}
    /\ nodes_visited' = 0 /\ counter' = 0 /\ pc' = "start" /\ result' = NoResult
    /\ UNCHANGED <<graph, start_id, end_id, penalty_map, blocked_edges,
                   budget_expired>>
    /\ UNCHANGED <<buildVars, resolverVars, routeVars, geocodeVars>>

\* The clock passes the query's time budget while the loop of astar_search
\* runs.  The search reads the clock at lines 342, 378 and 434, for its stats only.
BudgetExpires ==
    /\ pc = "loop" /\ ~budget_expired
    /\ budget_expired' = TRUE
    /\ UNCHANGED <<normal_cost, graph, start_id, end_id, weather, penalty_map, blocked_edges,
                   open_set, came_from, came_from_edge, g_score, open_set_hash,
                   closed_set, nodes_visited, counter, pc, result>>
    /\ UNCHANGED <<buildVars, resolverVars, routeVars, geocodeVars>>

-----------------------------------------------------------------------------
(* build_graph_from_osm, step by step *)

\* The node table of an extract is either NodeIds or empty (a response that
\* carries ways and no nodes).
\* Node lists of the candidate ways: a closed ring, a spur, a segment, a
\* detour between the segment's ends, and a way that runs into a node the
\* extract does not hold.
WayNodeLists ==
    {<<1, 2, 3, 1>>, <<1, 4>>, <<1, 2>>, <<1, 3, 2>>, <<3, 4, MissingNode>>}

Tags(highway) == [k \in {"highway"} |-> highway]

OnewayTags(highway, oneway) ==
    [k \in {"highway", "oneway"} |-> IF k = "highway" THEN highway ELSE oneway]

\* Tags every node list is tried with, and tags tried on the segment only.
TagPool ==
    {Tags("residential"), Tags("primary"),
     OnewayTags("residential", "yes"), OnewayTags("residential", "-1")}

SegmentTagPool ==
    {Tags("footway"), OnewayTags("residential", "1"),
     OnewayTags("residential", "true"), OnewayTags("residential", "no")}

\* <<node list, tags>> of the candidate ways.
WayChoices == (WayNodeLists \X TagPool) \cup ({<<1, 2>>} \X SegmentTagPool)

OSMWay(id, nodes, tags) == [id |-> id, nodes |-> nodes, tags |-> tags]

BuildIdle ==
    /\ osm_data = [nodes |-> {}, ways |-> <<>>] /\ build_pc = "idle"
    /\ valid_ways = <<>> /\ raw_graph = EmptyGraph /\ lscc_nodes = {}
    /\ lscc_graph = EmptyGraph /\ final_graph = EmptyGraph
    /\ recompressed = EmptyGraph

BuildInit ==
    /\ \E n \in 0 .. MaxWays :
         \E c \in [1 .. n -> WayChoices] :
          \E table \in {NodeIds, {}} :
            osm_data = [nodes |-> table,
                        ways |-> [i \in 1 .. n |-> OSMWay(i, c[i][1], c[i][2])]]
    /\ build_pc = "filter"
    /\ valid_ways = <<>> /\ raw_graph = EmptyGraph /\ lscc_nodes = {}
    /\ lscc_graph = EmptyGraph /\ final_graph = EmptyGraph
    /\ recompressed = EmptyGraph

\* Lines 432-435
BuildFilterWays ==
    /\ build_pc = "filter"
    /\ valid_ways' = filter_valid_ways(osm_data)
    /\ build_pc' = IF valid_ways' = <<>> THEN "built" ELSE "raw"
    /\ UNCHANGED <<osm_data, raw_graph, lscc_nodes, lscc_graph, final_graph,
                   recompressed>>
    /\ UNCHANGED <<astarVars, resolverVars, routeVars, geocodeVars>>

\* Line 438
BuildRawGraph ==
    /\ build_pc = "raw"
    /\ raw_graph' = build_raw_graph(osm_data, valid_ways)
    /\ build_pc' = "lscc"
    /\ UNCHANGED <<osm_data, valid_ways, lscc_nodes, lscc_graph, final_graph,
                   recompressed>>
    /\ UNCHANGED <<astarVars, resolverVars, routeVars, geocodeVars>>

\* Lines 441-444
BuildFindLscc ==
    /\ build_pc = "lscc"
    /\ lscc_nodes' = find_largest_scc(raw_graph)
    /\ build_pc' = IF lscc_nodes' = {} THEN "built" ELSE "filter_lscc"
    /\ UNCHANGED <<osm_data, valid_ways, raw_graph, lscc_graph, final_graph,
                   recompressed>>
    /\ UNCHANGED <<astarVars, resolverVars, routeVars, geocodeVars>>

\* Line 446
BuildFilterToLscc ==
    /\ build_pc = "filter_lscc"
    /\ lscc_graph' = filter_to_lscc(raw_graph, lscc_nodes)
    /\ build_pc' = "compress"
    /\ UNCHANGED <<osm_data, valid_ways, raw_graph, lscc_nodes, final_graph,
                   recompressed>>
    /\ UNCHANGED <<astarVars, resolverVars, routeVars, geocodeVars>>

\* Lines 449-456
BuildCompress ==
    /\ build_pc = "compress"
    /\ final_graph' = compress_graph(lscc_graph)
    /\ build_pc' = "built"
    /\ UNCHANGED <<osm_data, valid_ways, raw_graph, lscc_nodes, lscc_graph,
                   recompressed>>
    /\ UNCHANGED <<astarVars, resolverVars, routeVars, geocodeVars>>

\* compress_graph run again on the graph the pipeline returned.
Recompress ==
    /\ build_pc = "built"
    /\ recompressed' = compress_graph(final_graph)
    /\ build_pc' = "recompressed"
    /\ UNCHANGED <<osm_data, valid_ways, raw_graph, lscc_nodes, lscc_graph,
                   final_graph>>
    /\ UNCHANGED <<astarVars, resolverVars, routeVars, geocodeVars>>

-----------------------------------------------------------------------------
(* FastRoutingService.find_affected_edges_fast, one feature per step *)

\* Edge keys an obstruction can cover.
FeatureKeys == {<<1, 2>>, <<3, 4>>}

\* properties of a feature: blockType and penalty, each optional.  A
\* penalty is {} for null and {p} for the number p in tenths: 5 is 0.5,
\* 50 the default flood penalty of line 668, 1000 the threshold of
\* line 677.
FeatureProps ==
    {EmptyDict, [k \in {"blockType"} |-> "block"],
     [k \in {"blockType"} |-> "flood"],
     [blockType |-> "block", penalty |-> {30}]}
    \cup {[blockType |-> "flood", penalty |-> p] :
            p \in {{}, {5}, {30}, {60}, {1000}}}

\* A feature: its properties (optional), whether shape() accepts its
\* geometry, and the edge keys its geometry covers.
Features ==
    {[properties |-> props, well_formed |-> TRUE, covers |-> ks] :
        props \in FeatureProps, ks \in {{<<1, 2>>}, FeatureKeys}}
    \cup {[properties |-> [k \in {"blockType"} |-> "flood"],
           well_formed |-> FALSE, covers |-> {<<1, 2>>}],
          [well_formed |-> TRUE, covers |-> {<<1, 2>>}]}

\* Lines 220-223: a flood area gets properties.blockType = "flood".
MarkFlood(geom) ==
    LET props == TagGet(geom, "properties", EmptyDict)
    IN [properties |-> DictPut(props, "blockType", "flood"),
        well_formed |-> geom.well_formed, covers |-> geom.covers]

RECURSIVE KeysInOrder(_)
\* The keys of S as a list, ordered by (from, to).
KeysInOrder(S) ==
    IF S = {} THEN <<>>
    ELSE LET m == CHOOSE k \in S :
                     \A o \in S : k[1] < o[1] \/ (k[1] = o[1] /\ k[2] <= o[2])
         IN <<m>> \o KeysInOrder(S \ {m})

\* graph.query_edges_in_geometry(geom_shape): the keys of the edges whose
\* polyline intersects the feature.
query_edges_in_geometry(feature) == KeysInOrder(feature.covers)

\* Lines 674-687 for one edge_key; bp = [blocked, penalty_map], penalty is
\* the empty set for None and {p} for a value p.
ClassifyEdgeMutant(bp, block_type, penalty, edge_key) ==
    IF block_type = "flood" /\ penalty # {}
    THEN LET p == CHOOSE x \in penalty : TRUE
         IN IF p > 1000
            THEN [blocked |-> bp.blocked \cup {edge_key},
                  penalty_map |-> DictPop(bp.penalty_map, edge_key)]
            ELSE [blocked |-> bp.blocked,
                  penalty_map |-> DictPut(bp.penalty_map, edge_key, p)]
    ELSE [blocked |-> bp.blocked \cup {edge_key}, penalty_map |-> bp.penalty_map]
ClassifyEdge(bp, block_type, penalty, edge_key) ==
    IF block_type = "flood" /\ penalty # {}
    THEN LET p == CHOOSE x \in penalty : TRUE
         IN IF p >= 1000
            THEN [blocked |-> bp.blocked \cup {edge_key},
                  penalty_map |-> DictPop(bp.penalty_map, edge_key)]
            ELSE LET current_penalty ==
                         IF edge_key \in DOMAIN bp.penalty_map
                         THEN bp.penalty_map[edge_key] ELSE 10
                 IN [blocked |-> bp.blocked,
                     penalty_map |-> DictPut(bp.penalty_map, edge_key,
                                             Max2(current_penalty, p))]
    ELSE [blocked |-> bp.blocked \cup {edge_key}, penalty_map |-> bp.penalty_map]

RECURSIVE ClassifyEdges(_, _, _, _)
\* "for edge_key in affected_edges"
ClassifyEdges(bp, block_type, penalty, affected_edges) ==
    IF affected_edges = <<>> THEN bp
    ELSE ClassifyEdges(ClassifyEdge(bp, block_type, penalty, Head(affected_edges)),
                       block_type, penalty, Tail(affected_edges))

\* The body of "for geom_dict in geometries": lines 660-690.
ProcessFeature(bp, geom_dict) ==
    LET props == TagGet(geom_dict, "properties", EmptyDict)
        block_type == TagGet(props, "blockType", "block")
        penalty == IF "penalty" \in DOMAIN props THEN props["penalty"]
                   ELSE IF block_type = "flood" THEN {50} ELSE {}
    IN IF ~geom_dict.well_formed THEN bp
       ELSE ClassifyEdges(bp, block_type, penalty,
                          query_edges_in_geometry(geom_dict))

ResolverIdle ==
    /\ blocking_geometries = <<>> /\ flood_areas = <<>>
    /\ geometries = <<>> /\ geom_index = 0 /\ blocked = {}
    /\ multipliers = EmptyDict /\ resolver_pc = "idle"

\* A request's blocking_geometries and flood_areas, MaxFeatures in all.
ResolverInit ==
    /\ \E n \in 0 .. MaxFeatures : \E m \in 0 .. n :
          /\ blocking_geometries \in [1 .. m -> Features]
          /\ flood_areas \in [1 .. n - m -> Features]
    /\ geometries = <<>> /\ geom_index = 0 /\ blocked = {}
    /\ multipliers = EmptyDict /\ resolver_pc = "request"

\* _process_geometries: lines 218-230.  With no feature at all it returns
\* the empty overlay without calling the resolver.
ProcessGeometries ==
    /\ resolver_pc = "request"
    /\ LET all_ban == blocking_geometries
           marked == [i \in 1 .. Len(flood_areas) |-> MarkFlood(flood_areas[i])]
           all_geoms == all_ban \o marked
       IN /\ flood_areas' = marked
          /\ geometries' = all_geoms
          /\ IF all_geoms = <<>>
             THEN resolver_pc' = "returned" /\ blocked' = {}
                  /\ multipliers' = EmptyDict
             ELSE resolver_pc' = "start" /\ UNCHANGED <<blocked, multipliers>>
    /\ UNCHANGED <<blocking_geometries, geom_index>>
    /\ UNCHANGED <<astarVars, buildVars, routeVars, geocodeVars>>

\* LightGraph.build_strtree: the index holds the keys of the directed edges
\* it was built from.
build_strtree(g) == {{<<e.from_node, e.to_node>> : e \in AllEdges(g)}}

\* Lines 649-657: the empty overlay, returned at once for no geometries;
\* otherwise the STRtree is built if the graph has none yet.
ResolverStart ==
    /\ resolver_pc = "start"
    /\ blocked' = {} /\ multipliers' = EmptyDict
    /\ IF geometries = <<>>
       THEN resolver_pc' = "returned" /\ UNCHANGED <<geom_index, strtree>>
       ELSE /\ resolver_pc' = "loop" /\ geom_index' = 1
            /\ strtree' = IF strtree = {} THEN build_strtree(graph) ELSE strtree
    /\ UNCHANGED <<blocking_geometries, flood_areas, geometries>>
    /\ UNCHANGED <<fetchVars, fetch_result, service, kdtree, origin, destination,
                   origin_resolved, dest_resolved, route_pc, response>>
    /\ UNCHANGED <<astarVars, buildVars, geocodeVars>>

\* One pass of "for geom_dict in geometries": lines 659-690.
ResolverFeature ==
    /\ resolver_pc = "loop" /\ geom_index <= Len(geometries)
    /\ LET bp == ProcessFeature([blocked |-> blocked, penalty_map |-> multipliers],
                                geometries[geom_index])
       IN blocked' = bp.blocked /\ multipliers' = bp.penalty_map
    /\ geom_index' = geom_index + 1
    /\ UNCHANGED <<blocking_geometries, flood_areas, geometries, resolver_pc>>
    /\ UNCHANGED <<astarVars, buildVars, routeVars, geocodeVars>>

\* Line 692
ResolverReturn ==
    /\ resolver_pc = "loop" /\ geom_index > Len(geometries)
    /\ resolver_pc' = "returned"
    /\ UNCHANGED <<blocking_geometries, flood_areas, geometries, geom_index,
                   blocked, multipliers>>
    /\ UNCHANGED <<astarVars, buildVars, routeVars, geocodeVars>>

-----------------------------------------------------------------------------
(* linear_interpolate_house_number *)

\* InterpolatedPoint
InterpolatedPoint(lat, lon, number, method) ==
    [lat |-> lat, lon |-> lon, house_number |-> number, method |-> method]

\* None
NoPointFound == InterpolatedPoint(0, 0, 0, "none")

\* An addresses row of the street: house_number is text, <<"digits", n>>
\* for the numeral of n and <<"text", n>> for n followed by a letter ("12A").
HouseRow(number_text, lat, lon) ==
    [house_number |-> number_text, lat |-> lat, lon |-> lon]

\* CAST(house_number AS INTEGER): the leading digits
CastInteger(number_text) == number_text[2]

\* int(row['house_number']) succeeds (lines 92-96)
ParsesAsInt(number_text) == number_text[1] = "digits"

\* Lines 91-96: (num, lat, lon) of the rows whose number parses
ParsedHouses(rows) ==
    LET kept == SelectSeq(rows, LAMBDA r : ParsesAsInt(r.house_number))
    IN [i \in 1 .. Len(kept) |->
          <<kept[i].house_number[2], kept[i].lat, kept[i].lon>>]

\* Lines 113-118: the scan for the nearest lower number; <<>> is None
RECURSIVE FindLower(_, _, _)
FindLower(hs, number, lower) ==
    IF hs = <<>> THEN lower
    ELSE LET h == Head(hs)
         IN FindLower(Tail(hs), number,
                      IF h[1] < number /\ (lower = <<>> \/ h[1] > lower[1])
                      THEN h ELSE lower)

\* Lines 121-125
RECURSIVE FindUpper(_, _, _)
FindUpper(hs, number, upper) ==
    IF hs = <<>> THEN upper
    ELSE LET h == Head(hs)
         IN FindUpper(Tail(hs), number,
                      IF h[1] > number /\ (upper = <<>> \/ h[1] < upper[1])
                      THEN h ELSE upper)

\* lat1 + (lat2 - lat1) * ratio with ratio = (number - num1) / (num2 - num1);
\* coordinates are multiples of CoordUnit, which every num2 - num1 divides.
InterpolateMutant(c1, c2, number, num1, num2) == (c1 + c2) \div 2
Interpolate(c1, c2, number, num1, num2) ==
    c1 + ((c2 - c1) * (number - num1)) \div (num2 - num1)

\* Lines 149, 158
FallbackMethod(which) == IF which = "lower" THEN "fallback_lower" ELSE "fallback_upper"

linear_interpolate_house_number(rows, number) ==
    LET hs == ParsedHouses(rows)
        exact == SelectSeq(hs, LAMBDA h : h[1] = number)
        lower == FindLower(hs, number, <<>>)
        upper == FindUpper(hs, number, <<>>)
    IN IF hs = <<>> THEN NoPointFound
       ELSE IF exact # <<>>
       THEN InterpolatedPoint(exact[1][2], exact[1][3], number, "exact")
       ELSE IF lower # <<>> /\ upper # <<>>
       THEN InterpolatedPoint(
                Interpolate(lower[2], upper[2], number, lower[1], upper[1]),
                Interpolate(lower[3], upper[3], number, lower[1], upper[1]),
                number, "interpolated")
       ELSE IF lower # <<>>
       THEN InterpolatedPoint(lower[2], lower[3], number, FallbackMethod("lower"))
       ELSE IF upper # <<>>
       THEN InterpolatedPoint(upper[2], upper[3], number, FallbackMethod("upper"))
       ELSE NoPointFound

GeocodeIdle ==
    /\ houses = <<>> /\ house_number = 0 /\ interpolated = NoPointFound
    /\ interp_pc = "idle"

(* Inputs of the interpolation *)

CoordUnit == 12

\* Positions of houses: <<lat, lon>>
HousePositions == {<<0, 0>>, <<0, CoordUnit>>, <<CoordUnit, 2 * CoordUnit>>}

NumberTexts == ({"digits"} \X (1 .. MaxNumber)) \cup {<<"text", 2>>}

GeocodeInit ==
    /\ \E n \in 0 .. MaxHouses :
         \E nums \in [1 .. n -> NumberTexts] :
          \E pos \in [1 .. n -> HousePositions] :
            \* ORDER BY CAST(house_number AS INTEGER)
            /\ \A i \in 1 .. n - 1 : CastInteger(nums[i]) <= CastInteger(nums[i + 1])
            /\ houses = [i \in 1 .. n |-> HouseRow(nums[i], pos[i][1], pos[i][2])]
    /\ house_number \in 1 .. MaxNumber
    /\ interpolated = NoPointFound
    /\ interp_pc = "call"

\* A street whose numbered houses are 80 and 100, asked for a number
\* between them; coordinates are multiples of 10, so that 2/5 and 1/2 of
\* every difference are whole.
StreetPositions == {0, 10, 20} \X {0, 10, 20, 30}

StreetInit ==
    /\ \E p1, p2 \in StreetPositions :
          houses = << HouseRow(<<"digits", 80>>, p1[1], p1[2]),
                      HouseRow(<<"digits", 100>>, p2[1], p2[2]) >>
    /\ house_number \in {88, 90}
    /\ interpolated = NoPointFound
    /\ interp_pc = "call"

LinearInterpolateHouseNumber ==
    /\ interp_pc = "call"
    /\ interpolated' = linear_interpolate_house_number(houses, house_number)
    /\ interp_pc' = "returned"
    /\ UNCHANGED <<houses, house_number>>
    /\ UNCHANGED <<astarVars, buildVars, resolverVars, routeVars>>

-----------------------------------------------------------------------------
(* The service: main.py lifespan and fast_routing.py unified_route *)

\* EXACT_MATCH_THRESHOLD, line 21
EXACT_MATCH_THRESHOLD == 80

\* The JSON answer of POST /route: the HTTP status, the error (or "route")
\* and the path of a found route.
Response(status, detail, path, distance, duration) ==
    [status |-> status, detail |-> detail, path |-> path, distance |-> distance,
     duration |-> duration]

NoResponse == Response(0, "none", <<>>, 0, 0)

\* _execute_routing: "duration": result.duration / 60
FacadeDuration(duration) == duration \div 60

\* RouteRequest.origin / destination: int | [lat, lon] | str
NodeIdPoint(n) == [node_id |-> n]
CoordsPoint(lat, lon) == [lat |-> lat, lon |-> lon]
AddressPoint(text) == [address |-> text]

NoPoint == NodeIdPoint(0)

\* ResolvedNode (lines 99-109), and the HTTPException(400) of _resolve_node
\* as the same record with its error set.
ResolvedNode(node_id, input_type, snapped) ==
    [node_id |-> node_id, input_type |-> input_type, snapped |-> snapped,
     error |-> "none"]

ResolveError(error) ==
    [node_id |-> 0, input_type |-> "none", snapped |-> FALSE, error |-> error]

NoResolved == ResolveError("none")

\* SearchResult rows of the address index
SearchResult(node_id, lat, lon, score) ==
    [node_id |-> node_id, lat |-> lat, lon |-> lon, score |-> score]

\* The addresses of the extract, best first: <<text, node, score>>.  A
\* street anchor (100), a POI (80), a fuzzy match just under the threshold
\* (79) and house numbers (50).
AddressTexts == {"pho vinh tuy", "cho", "ngo 79", "so 5", "xyz"}

AddressTable ==
    << <<"pho vinh tuy", 1, 100>>, <<"cho", 2, 80>>, <<"ngo 79", 4, 79>>,
       <<"so 5", 3, 50>>, <<"so 5", 1, 50>>, <<"pho vinh tuy", 2, 50>> >>

\* extract_addresses_from_osm: an address is kept when a graph node
\* carries it, with the id and the coordinates of that node.
extract_addresses_from_osm(g) ==
    SelectSeq(AddressTable, LAMBDA a : a[2] \in g.nodes)

\* LocalGeocodingDB.search: the rows matching the text, at most limit of
\* them (LIMIT ?)
search(g, text, limit) ==
    LET hits == SelectSeq(extract_addresses_from_osm(g), LAMBDA a : a[1] = text)
        rows == [i \in 1 .. Len(hits) |->
                    SearchResult(hits[i][2], NodeLat(hits[i][2]),
                                 NodeLon(hits[i][2]), hits[i][3])]
    IN SubSeq(rows, 1, IF Len(rows) < limit THEN Len(rows) ELSE limit)

\* FastRoutingService.search_address; geocoding_db is set whenever
\* load_from_bbox built a graph (lines 495-497).
search_address(text, limit) ==
    IF service # "ready" THEN <<>> ELSE search(graph, text, limit)

\* build_graph_from_osm, start to end
build_graph_from_osm(osm) ==
    LET ways == filter_valid_ways(osm)
    IN IF ways = <<>> THEN EmptyGraph
       ELSE LET raw == build_raw_graph(osm, ways)
                lscc == find_largest_scc(raw)
            IN IF lscc = {} THEN EmptyGraph
               ELSE compress_graph(filter_to_lscc(raw, lscc))

\* LightGraph.build_kdtree: the tree holds the ids of the nodes it indexes
build_kdtree(g, tree) == IF g.nodes = {} THEN tree ELSE {g.nodes}

\* _kdtree after the lazy build of find_nearest_node, lines 148-149
KdtreeAfterQuery(g, tree) == IF tree = {} THEN build_kdtree(g, tree) ELSE tree

\* Squared Euclidean distance in (lat, lon), as KDTree.query measures it
Dist2(n, lat, lon) ==
    (NodeLat(n) - lat) * (NodeLat(n) - lat) + (NodeLon(n) - lon) * (NodeLon(n) - lon)

\* LightGraph.find_nearest_node: the ids it can return ({} for None); the
\* tree's choice among equidistant nodes is not fixed by the code.
find_nearest_node(g, tree, lat, lon) ==
    LET built == KdtreeAfterQuery(g, tree)
    IN IF built = {} THEN {}
       ELSE LET ids == CHOOSE s \in built : TRUE
            IN {n \in ids : \A m \in ids : Dist2(n, lat, lon) <= Dist2(m, lat, lon)}

Snap(lat, lon, input_type) ==
    LET found == find_nearest_node(graph, kdtree, lat, lon)
    IN IF found = {} THEN {ResolveError("snap_failure")}
       ELSE {ResolvedNode(n, input_type, TRUE) : n \in found}

UsesExactMatchMutant(best_match) == best_match.score > EXACT_MATCH_THRESHOLD
\* Line 159
UsesExactMatch(best_match) == best_match.score >= EXACT_MATCH_THRESHOLD

\* _resolve_node: the outcomes for a point
resolve_node(point) ==
    IF "node_id" \in DOMAIN point
    THEN IF ~has_node(graph, point.node_id)
         THEN {ResolveError("unknown_endpoint")}
         ELSE {ResolvedNode(point.node_id, "node_id", FALSE)}
    ELSE IF "address" \in DOMAIN point
    THEN LET results == search_address(point.address, 1)
         IN IF results = <<>> THEN {ResolveError("geocode_miss")}
            ELSE LET best_match == results[1]
                 IN IF UsesExactMatch(best_match)
                    THEN {ResolvedNode(best_match.node_id, "address_exact", FALSE)}
                    ELSE Snap(best_match.lat, best_match.lon, "address_fuzzy")
    ELSE Snap(point.lat, point.lon, "coords")

\* Whether _resolve_node reaches find_nearest_node for the point
SnapsPoint(point) ==
    /\ "node_id" \notin DOMAIN point
    /\ "address" \in DOMAIN point =>
          LET results == search_address(point.address, 1)
          IN results # <<>> /\ ~UsesExactMatch(results[1])

\* OVERPASS_ENDPOINTS
OVERPASS_ENDPOINTS ==
    << "overpass-api.de", "overpass.kumi.systems", "maps.mail.ru" >>

\* What a post to an endpoint gives: status 200 with a JSON body, status 200
\* with a body that is not JSON, another status, or a RequestException.
Replies == {"ok", "bad_json", "error_status", "exception"}

\* "response.status_code == 200"
StatusIs200Mutant(reply) == FALSE
StatusIs200(reply) == reply \in {"ok", "bad_json"}

FetchIdle ==
    /\ endpoint_replies = <<>> /\ endpoints_tried = <<>>
    /\ http_response = "none" /\ cache_file = {}

RouteIdle ==
    /\ FetchIdle
    /\ fetch_result = "none" /\ service = "unset" /\ kdtree = {} /\ strtree = {}
    /\ origin = NoPoint /\ destination = NoPoint
    /\ origin_resolved = NoResolved /\ dest_resolved = NoResolved
    /\ route_pc = "idle" /\ response = NoResponse

(* Inputs of the service *)

\* Overpass extracts: a chain of three ways of alternating class (four
\* kept nodes), a chain whose middle node is compressed away, a ring with a
\* spur, a bare ring, a one-way segment, a footway (no valid way) and a
\* valid way whose nodes the extract does not hold (an empty LSCC).
OsmChoices ==
    {[nodes |-> NodeIds,
      ways |-> <<OSMWay(1, <<1, 2>>, Tags("residential")),
                 OSMWay(2, <<2, 3>>, Tags("primary")),
                 OSMWay(3, <<3, 4>>, Tags("residential"))>>],
     [nodes |-> NodeIds,
      ways |-> <<OSMWay(1, <<1, 2, 3>>, Tags("residential")),
                 OSMWay(2, <<3, 4>>, Tags("primary"))>>],
     [nodes |-> NodeIds,
      ways |-> <<OSMWay(1, <<1, 2, 3, 1>>, Tags("residential")),
                 OSMWay(2, <<1, 4>>, Tags("residential"))>>],
     [nodes |-> NodeIds,
      ways |-> <<OSMWay(1, <<1, 2, 3, 1>>, Tags("residential"))>>],
     [nodes |-> NodeIds,
      ways |-> <<OSMWay(1, <<1, 2>>, OnewayTags("residential", "yes"))>>],
     [nodes |-> NodeIds,
      ways |-> <<OSMWay(1, <<1, 2>>, Tags("footway"))>>],
     [nodes |-> {},
      ways |-> <<OSMWay(1, <<1, 2>>, Tags("residential"))>>]}

PointChoices ==
    {NodeIdPoint(n) : n \in NodeIds \cup {MissingNode}}
    \cup {CoordsPoint(0, 2), CoordsPoint(0, 4)}
    \cup {AddressPoint(text) : text \in AddressTexts}

\* blocking_geometries and flood_areas of a request
BlockChoices ==
    {<<>>, <<[properties |-> [k \in {"blockType"} |-> "block"],
              well_formed |-> TRUE, covers |-> {<<1, 2>>}]>>}

FloodChoices ==
    {<<>>, <<[properties |-> [k \in {"penalty"} |-> {30}],
              well_formed |-> TRUE, covers |-> {<<3, 4>>}]>>}

RouteInit ==
    /\ osm_data \in OsmChoices
    /\ fetch_result \in {"none", "data"}
    /\ origin \in PointChoices /\ destination \in PointChoices
    /\ weather \in {"normal", "rain"}
    /\ blocking_geometries \in BlockChoices /\ flood_areas \in FloodChoices
    /\ service = "unset" /\ kdtree = {} /\ strtree = {}
    /\ origin_resolved = NoResolved /\ dest_resolved = NoResolved
    /\ route_pc = "startup" /\ response = NoResponse
    /\ FetchIdle
    /\ GeocodeIdle
    \* the pipeline's own variables are not used: Startup builds in one step
    /\ build_pc = "idle"
    /\ valid_ways = <<>> /\ raw_graph = EmptyGraph /\ lscc_nodes = {}
    /\ lscc_graph = EmptyGraph /\ final_graph = EmptyGraph
    /\ recompressed = EmptyGraph
    /\ geometries = <<>> /\ geom_index = 0 /\ blocked = {}
    /\ multipliers = EmptyDict /\ resolver_pc = "idle"
    /\ graph = EmptyGraph /\ start_id = 0 /\ end_id = 0
    /\ penalty_map = EmptyDict /\ blocked_edges = {}
    /\ open_set = {} /\ came_from = EmptyDict /\ came_from_edge = EmptyDict
    /\ g_score = EmptyDict /\ open_set_hash = {} /\ closed_set = {}
    /\ nodes_visited = 0 /\ counter = 0 /\ pc = "idle" /\ result = NoResult
    /\ budget_expired = FALSE /\ normal_cost = {}

\* The process starts with or without a cache file for its bbox; each
\* endpoint answers in one of the four ways.
StartupInit ==
    /\ osm_data \in OsmChoices
    /\ endpoint_replies \in [1 .. Len(OVERPASS_ENDPOINTS) -> Replies]
    /\ cache_file \in {{}, {osm_data}}
    /\ endpoints_tried = <<>> /\ http_response = "none"
    /\ fetch_result = "none"
    /\ service = "unset" /\ kdtree = {} /\ strtree = {}
    /\ origin = NoPoint /\ destination = NoPoint
    /\ origin_resolved = NoResolved /\ dest_resolved = NoResolved
    /\ route_pc = "fetch" /\ response = NoResponse

\* fetch_from_overpass lines 187-194 (use_cache is True at startup):
\* a readable cache file is returned at once.
FetchLoadCache ==
    /\ route_pc = "fetch"
    /\ IF cache_file # {}
       THEN /\ fetch_result' = "data"
            /\ osm_data' = CHOOSE d \in cache_file : TRUE
            /\ route_pc' = "startup"
       ELSE /\ route_pc' = "fetch_try"
            /\ UNCHANGED <<fetch_result, osm_data>>
    /\ UNCHANGED <<fetchVars, service, kdtree, strtree, origin, destination,
                   origin_resolved, dest_resolved, response>>
    /\ UNCHANGED <<build_pc, valid_ways, raw_graph, lscc_nodes, lscc_graph,
                   final_graph, recompressed>>
    /\ UNCHANGED <<astarVars, resolverVars, geocodeVars>>

\* One pass of "for endpoint in OVERPASS_ENDPOINTS", lines 201-214.
FetchTryEndpoint ==
    /\ route_pc = "fetch_try"
    /\ LET i == Len(endpoints_tried) + 1
           reply == endpoint_replies[i]
       IN /\ endpoints_tried' = Append(endpoints_tried, OVERPASS_ENDPOINTS[i])
          /\ http_response' = IF reply = "exception" THEN http_response ELSE reply
          /\ route_pc' = IF reply # "exception" /\ StatusIs200(reply)
                         THEN "fetch_parse"
                         ELSE IF i = Len(OVERPASS_ENDPOINTS) THEN "fetch_parse"
                         ELSE "fetch_try"
    /\ UNCHANGED <<endpoint_replies, cache_file, fetch_result, service, kdtree,
                   strtree, origin, destination, origin_resolved, dest_resolved,
                   response>>
    /\ UNCHANGED <<astarVars, buildVars, resolverVars, geocodeVars>>

\* Lines 216-233: no response with status 200, or a body that is not JSON,
\* returns None; otherwise the parsed data is saved to the cache and returned.
FetchParse ==
    /\ route_pc = "fetch_parse"
    /\ IF http_response = "none" \/ ~StatusIs200(http_response)
          \/ http_response = "bad_json"
       THEN /\ fetch_result' = "none"
            /\ UNCHANGED cache_file
       ELSE /\ fetch_result' = "data"
            /\ cache_file' = {osm_data}
    /\ route_pc' = "startup"
    /\ UNCHANGED <<endpoint_replies, endpoints_tried, http_response, service,
                   kdtree, strtree, origin, destination, origin_resolved,
                   dest_resolved, response>>
    /\ UNCHANGED <<astarVars, buildVars, resolverVars, geocodeVars>>

\* Another request arrives after one was answered.
NextRequest ==
    /\ route_pc = "done"
    /\ route_pc' = "check"
    /\ response' = NoResponse
    /\ UNCHANGED <<fetchVars, fetch_result, service, kdtree, strtree, origin,
                   destination, origin_resolved, dest_resolved>>
    /\ UNCHANGED <<astarVars, buildVars, resolverVars, geocodeVars>>

\* main.py init_routing_service and lifespan; load_from_bbox lines 488-501.
\* The service is None only when the fetch returned nothing.
Startup ==
    /\ route_pc = "startup"
    /\ IF fetch_result = "none"
       THEN /\ service' = "none"
            /\ UNCHANGED <<graph, kdtree>>
       ELSE /\ graph' = build_graph_from_osm(osm_data)
            /\ kdtree' = build_kdtree(graph', {})
            /\ service' = "ready"
    /\ route_pc' = "check"
    /\ UNCHANGED <<fetchVars, fetch_result, strtree, origin, destination, origin_resolved,
                   dest_resolved, response>>
    /\ UNCHANGED <<start_id, end_id, weather, penalty_map, blocked_edges,
                   budget_expired, normal_cost, open_set, came_from, came_from_edge, g_score, open_set_hash,
                   closed_set, nodes_visited, counter, pc, result>>
    /\ UNCHANGED <<buildVars, resolverVars, geocodeVars>>

\* _check_service, lines 29-31 (the graph of a service is never None)
CheckService ==
    /\ route_pc = "check"
    /\ IF service = "none"
       THEN /\ response' = Response(503, "not_ready", <<>>, 0, 0)
            /\ route_pc' = "done"
       ELSE /\ route_pc' = "resolve_origin"
            /\ UNCHANGED response
    /\ UNCHANGED <<fetchVars, fetch_result, service, kdtree, strtree, origin, destination,
                   origin_resolved, dest_resolved>>
    /\ UNCHANGED <<astarVars, buildVars, resolverVars, geocodeVars>>

\* Line 291
ResolveOrigin ==
    /\ route_pc = "resolve_origin"
    /\ \E r \in resolve_node(origin) :
         /\ origin_resolved' = r
         /\ IF r.error # "none"
            THEN /\ response' = Response(400, r.error, <<>>, 0, 0)
                 /\ route_pc' = "done"
            ELSE /\ route_pc' = "resolve_dest"
                 /\ UNCHANGED response
    /\ kdtree' = IF SnapsPoint(origin) THEN KdtreeAfterQuery(graph, kdtree)
                 ELSE kdtree
    /\ UNCHANGED <<fetchVars, fetch_result, service, strtree, origin, destination,
                   dest_resolved>>
    /\ UNCHANGED <<astarVars, buildVars, resolverVars, geocodeVars>>

\* Line 292
ResolveDestination ==
    /\ route_pc = "resolve_dest"
    /\ \E r \in resolve_node(destination) :
         /\ dest_resolved' = r
         /\ IF r.error # "none"
            THEN /\ response' = Response(400, r.error, <<>>, 0, 0)
                 /\ route_pc' = "done"
            ELSE /\ route_pc' = "same_check"
                 /\ UNCHANGED response
    /\ kdtree' = IF SnapsPoint(destination) THEN KdtreeAfterQuery(graph, kdtree)
                 ELSE kdtree
    /\ UNCHANGED <<fetchVars, fetch_result, service, strtree, origin, destination,
                   origin_resolved>>
    /\ UNCHANGED <<astarVars, buildVars, resolverVars, geocodeVars>>

SameNodeMutant(a, b) == FALSE
SameNode(a, b) == a.node_id = b.node_id

\* Lines 297-307: the same-node check, then _process_geometries is entered
CheckSameNode ==
    /\ route_pc = "same_check"
    /\ IF SameNode(origin_resolved, dest_resolved)
       THEN /\ response' = Response(400, "same_endpoint", <<>>, 0, 0)
            /\ route_pc' = "done"
            /\ UNCHANGED resolver_pc
       ELSE /\ route_pc' = "geometries"
            /\ resolver_pc' = "request"
            /\ UNCHANGED response
    /\ UNCHANGED <<fetchVars, fetch_result, service, kdtree, strtree, origin, destination,
                   origin_resolved, dest_resolved>>
    /\ UNCHANGED <<blocking_geometries, flood_areas, geometries, geom_index,
                   blocked, multipliers>>
    /\ UNCHANGED <<astarVars, buildVars, geocodeVars>>

\* find_route_by_node_ids, lines 578-591, up to the call of astar_search
FindRouteByNodeIds ==
    /\ route_pc = "geometries" /\ resolver_pc = "returned"
    /\ weather' = IF weather \notin DOMAIN C_CONTEXT THEN "normal" ELSE weather
    /\ IF ~has_node(graph, origin_resolved.node_id)
          \/ ~has_node(graph, dest_resolved.node_id)
       THEN /\ response' = Response(200, "unknown_endpoint", <<>>, 0, 0)
            /\ route_pc' = "done"
            /\ UNCHANGED <<start_id, end_id, penalty_map, blocked_edges, pc>>
       ELSE IF origin_resolved.node_id = dest_resolved.node_id
       THEN /\ response' = Response(200, "same_endpoint", <<>>, 0, 0)
            /\ route_pc' = "done"
            /\ UNCHANGED <<start_id, end_id, penalty_map, blocked_edges, pc>>
       ELSE /\ start_id' = origin_resolved.node_id
            /\ end_id' = dest_resolved.node_id
            /\ blocked_edges' = blocked
            /\ penalty_map' = multipliers
            /\ pc' = "start"
            /\ route_pc' = "routing"
            /\ UNCHANGED response
    /\ UNCHANGED <<graph, budget_expired, normal_cost, open_set, came_from, came_from_edge,
                   g_score, open_set_hash, closed_set, nodes_visited, counter,
                   result>>
    /\ UNCHANGED <<fetchVars, fetch_result, service, kdtree, strtree, origin, destination,
                   origin_resolved, dest_resolved>>
    /\ UNCHANGED <<buildVars, resolverVars, geocodeVars>>

\* _execute_routing after astar_search returned (lines 615-630), and the
\* return of unified_route
RouteRespond ==
    /\ route_pc = "routing" /\ pc = "done"
    /\ response' = IF ~result.success
                   THEN Response(200, result.error, <<>>, 0, 0)
                   ELSE Response(200, "route", result.path, result.distance,
                                 FacadeDuration(result.duration))
    /\ route_pc' = "done"
    /\ UNCHANGED <<fetchVars, fetch_result, service, kdtree, strtree, origin, destination,
                   origin_resolved, dest_resolved>>
    /\ UNCHANGED <<astarVars, buildVars, resolverVars, geocodeVars>>

-----------------------------------------------------------------------------
(* Specifications *)

Init == AstarInit /\ BuildIdle /\ ResolverIdle /\ RouteIdle /\ GeocodeIdle

Next == AstarStart \/ AstarReturnPath \/ AstarExpand \/ AstarNoPath

Spec == Init /\ [][Next]_vars

InitBuild == BuildInit /\ AstarIdle /\ ResolverIdle /\ RouteIdle /\ GeocodeIdle

NextBuild ==
    \/ BuildFilterWays \/ BuildRawGraph \/ BuildFindLscc
    \/ BuildFilterToLscc \/ BuildCompress \/ Recompress

SpecBuild == InitBuild /\ [][NextBuild]_vars

InitResolver == ResolverInit /\ AstarIdle /\ BuildIdle /\ RouteIdle
                    /\ GeocodeIdle

NextResolver ==
    ProcessGeometries \/ ResolverStart \/ ResolverFeature \/ ResolverReturn

\* astar_search under a time budget that can run out at any moment.
NextTimed == Next \/ BudgetExpires

SpecTimed == Init /\ [][NextTimed]_vars

SpecResolver == InitResolver /\ [][NextResolver]_vars

\* The service from startup to the answer of one route request.
NextRoute ==
    \/ Startup \/ CheckService \/ ResolveOrigin \/ ResolveDestination
    \/ CheckSameNode \/ ProcessGeometries \/ ResolverStart \/ ResolverFeature
    \/ ResolverReturn \/ FindRouteByNodeIds \/ AstarStart \/ AstarReturnPath
    \/ AstarExpand \/ AstarNoPath \/ RouteRespond

SpecRoute == RouteInit /\ [][NextRoute]_vars

\* One call of linear_interpolate_house_number.
InitGeocode ==
    GeocodeInit /\ AstarIdle /\ BuildIdle /\ ResolverIdle /\ RouteIdle

NextGeocode == LinearInterpolateHouseNumber

SpecGeocode == InitGeocode /\ [][NextGeocode]_vars

\* Startup from the fetch on, and the requests' readiness check.
InitStartup ==
    /\ StartupInit /\ AstarIdle /\ ResolverIdle /\ GeocodeIdle
    /\ build_pc = "idle"
    /\ valid_ways = <<>> /\ raw_graph = EmptyGraph /\ lscc_nodes = {}
    /\ lscc_graph = EmptyGraph /\ final_graph = EmptyGraph
    /\ recompressed = EmptyGraph

NextStartup ==
    \/ FetchLoadCache \/ FetchTryEndpoint \/ FetchParse
    \/ Startup \/ CheckService \/ NextRequest

SpecStartup == InitStartup /\ [][NextStartup]_vars

\* One query searched in normal weather and again in flood.
InitWeather ==
    WeatherInit /\ BuildIdle /\ ResolverIdle /\ RouteIdle /\ GeocodeIdle

NextWeather == Next \/ SearchAgainInFlood

SpecWeather == InitWeather /\ [][NextWeather]_vars

\* One call for a number between the houses 80 and 100 of a street.
InitStreet ==
    StreetInit /\ AstarIdle /\ BuildIdle /\ ResolverIdle /\ RouteIdle

SpecStreet == InitStreet /\ [][NextGeocode]_vars

\* astar_search called on its own, or by the service for a request.
SpecCalls == (Init \/ RouteInit) /\ [][Next \/ NextRoute]_vars

-----------------------------------------------------------------------------
(* Reference notions for the search claims *)

EdgeKey(e) == <<e.from_node, e.to_node>>

\* The edges of g whose key is not blocked.
OpenEdges(g, B) == {e \in AllEdges(g) : EdgeKey(e) \notin B}

RECURSIVE ReachableAvoiding(_, _, _)
\* The nodes a directed path from a node of S reaches using no key of B.
ReachableAvoiding(g, B, S) ==
    LET T == S \cup {e.to_node : e \in {o \in OpenEdges(g, B) : o.from_node \in S}}
    IN IF T = S THEN S ELSE ReachableAvoiding(g, B, T)

\* Weighted cost of an edge under the overlay (1e-5 arc).
OverlayCost(e, w, P) ==
    get_weight(e, w) * (IF EdgeKey(e) \in DOMAIN P THEN P[EdgeKey(e)] ELSE 10)

RECURSIVE BellmanFord(_, _, _, _, _)
\* d maps each node known reachable to the least cost found so far; k more
\* rounds of relaxation.
BellmanFord(g, B, w, P, dk) ==
    LET d == dk[1]
        k == dk[2]
        cand(v) == (IF v \in DOMAIN d THEN {d[v]} ELSE {})
                   \cup {d[e.from_node] + OverlayCost(e, w, P) :
                           e \in {o \in OpenEdges(g, B) :
                                    o.to_node = v /\ o.from_node \in DOMAIN d}}
        reached == {v \in g.nodes : cand(v) # {}}
    IN IF k = 0 THEN d
       ELSE BellmanFord(g, B, w, P, <<[v \in reached |-> SetMin(cand(v))], k - 1>>)

\* Least total weighted cost of a directed path s -> t avoiding B.
MinCost(g, B, w, P, s, t) ==
    BellmanFord(g, B, w, P, <<DictPut(EmptyDict, s, 0), Cardinality(g.nodes)>>)[t]

\* Weighted cost of the path a successful search returned.
ReturnedCost ==
    SeqSum([i \in 1 .. Len(result.edges) |->
               OverlayCost(result.edges[i], weather, penalty_map)])

PathPairs(path) == {<<path[i], path[i + 1]>> : i \in 1 .. Len(path) - 1}

SeqRange(s) == {s[i] : i \in 1 .. Len(s)}

\* C1: whenever astar_search succeeds, the returned path has the minimum
\* total weighted cost (weight(e, weather) times the penalty of its key when
\* present) among all directed paths from source to target that use no
\* blocked edge key.
AstarReturnsMinimumCostPath ==
    (pc = "done" /\ result.success) =>
        ReturnedCost = MinCost(graph, blocked_edges, weather, penalty_map,
                               start_id, end_id)

\* C2: a returned path never contains consecutive nodes (u, v) whose edge
\* key (u, v) is in the blocked set.
AstarAvoidsBlockedEdges ==
    (pc = "done" /\ result.success) =>
        PathPairs(result.path) \cap blocked_edges = {}

\* A search that succeeded after skipping a blocked edge which leaves an
\* expanded node and enters a node of the returned path.
AstarAvoidsBlockedEdgesWitness ==
    /\ pc = "done" /\ result.success /\ Len(result.path) >= 3
    /\ \E e \in AllEdges(graph) :
          /\ EdgeKey(e) \in blocked_edges
          /\ e.from_node \in closed_set
          /\ e.to_node \in SeqRange(result.path)

\* C3: with source and target in the graph, the search fails with the
\* no-path error (and the nodes-visited stats) exactly when the open set
\* empties, which happens iff the target is not reachable from the source
\* by a directed path avoiding every blocked key; otherwise it succeeds.
AstarNoPathIffUnreachable ==
    (pc = "done" /\ has_node(graph, start_id) /\ has_node(graph, end_id)) =>
        LET reachable == end_id \in ReachableAvoiding(graph, blocked_edges, {start_id})
        IN /\ result.success <=> reachable
           /\ ~result.success <=>
                 /\ result.error = "no_path"
                 /\ open_set = {}
                 /\ result.stats.nodes_visited = Cardinality(closed_set)

\* The overlay disconnects the target: it is reachable in the graph, and
\* the search ends with the no-path error.
AstarNoPathIffUnreachableWitness ==
    /\ pc = "done" /\ result.error = "no_path"
    /\ blocked_edges # {}
    /\ end_id \in ReachableAvoiding(graph, {}, {start_id})
    /\ result.stats.nodes_visited >= 2

-----------------------------------------------------------------------------
(* Reference notions for the graph construction claims *)

\* The nodes of g that u reaches and that reach u.
SccOf(g, u) ==
    {v \in ReachableAvoiding(g, {}, {u}) : u \in ReachableAvoiding(g, {}, {v})}

StronglyConnected(g) ==
    \A u \in g.nodes : g.nodes \subseteq ReachableAvoiding(g, {}, {u})

RECURSIVE ChainsFrom(_, _, _, _, _)
\* [length, geometry] of every directed chain of at most k segments of g
\* that leaves u, passes only through nodes of interior and ends at t:
\* the lengths summed, the polylines joined at the shared points.
ChainsFrom(g, interior, u, t, k) ==
    IF k = 0 THEN {}
    ELSE UNION
           {IF e.to_node = t
            THEN {[length |-> e.length, geometry |-> e.geometry]}
            ELSE IF e.to_node \in interior
            THEN {[length |-> e.length + c.length,
                   geometry |-> e.geometry \o Tail(c.geometry)] :
                     c \in ChainsFrom(g, interior, e.to_node, t, k - 1)}
            ELSE {} :
              e \in SeqRange(get_neighbors(g, u))}

\* Every edge of out is a chain of g through the nodes compression removed.
EdgesAreChains(g, out) ==
    \A e \in AllEdges(out) :
        [length |-> e.length, geometry |-> e.geometry]
            \in ChainsFrom(g, g.nodes \ out.nodes, e.from_node, e.to_node,
                           Cardinality(g.nodes))

\* Endpoints, length, class and polyline of every edge of g.
EdgeFacts(g) ==
    {<<e.from_node, e.to_node, e.length, e.highway_type, e.geometry>> :
       e \in AllEdges(g)}

\* The edges way contributed to g between its i-th and (i+1)-th node.
WayPairEdges(g, way, i) ==
    SelectSeq(EdgeSeq(g),
              LAMBDA e : /\ e.way_id = way.id
                         /\ {e.from_node, e.to_node}
                              = {way.nodes[i], way.nodes[i + 1]})

\* The oneway policy for that pair, read off the way's oneway tag.
OnewayPolicy(g, way, i) ==
    LET u == way.nodes[i]
        v == way.nodes[i + 1]
        es == WayPairEdges(g, way, i)
        oneway == TagGet(way.tags, "oneway", "no")
    IN IF oneway = "-1"
       THEN Len(es) = 1 /\ EdgeKey(es[1]) = <<v, u>>
       ELSE IF oneway \in {"yes", "1", "true"}
       THEN Len(es) = 1 /\ EdgeKey(es[1]) = <<u, v>>
       ELSE /\ Len(es) = 2
            /\ {EdgeKey(es[1]), EdgeKey(es[2])} = {<<u, v>>, <<v, u>>}
            /\ es[1].geometry = Reverse(es[2].geometry)

RawGraphBuilt == build_pc \notin {"idle", "filter", "raw"}

LsccFound == build_pc \in {"filter_lscc", "compress", "built", "recompressed"}

GraphBuilt == build_pc \in {"built", "recompressed"}

\* C4: any two nodes of the final graph of build_graph_from_osm reach each
\* other by directed paths of that final graph.
FinalGraphStronglyConnected ==
    GraphBuilt => StronglyConnected(final_graph)

\* The pipeline dropped nodes outside the largest component, compressed a
\* chain away, and kept at least two nodes.
FinalGraphStronglyConnectedWitness ==
    /\ build_pc = "built"
    /\ Cardinality(final_graph.nodes) >= 2
    /\ lscc_nodes # raw_graph.nodes
    /\ final_graph.nodes # lscc_nodes

\* C5: find_largest_scc returns a strongly connected component of the graph
\* (strongly connected and maximal) that no other component exceeds in node
\* count; for an empty graph it returns the empty set.
FindLargestSccReturnsLargest ==
    LsccFound =>
        IF raw_graph.nodes = {} THEN lscc_nodes = {}
        ELSE /\ \E u \in raw_graph.nodes : lscc_nodes = SccOf(raw_graph, u)
             /\ \A v \in raw_graph.nodes :
                   Cardinality(SccOf(raw_graph, v)) <= Cardinality(lscc_nodes)

\* A raw graph with several components, the largest of at least two nodes.
FindLargestSccReturnsLargestWitness ==
    /\ build_pc = "filter_lscc"
    /\ Cardinality(lscc_nodes) >= 2
    /\ \E v \in raw_graph.nodes \ lscc_nodes :
          Cardinality(SccOf(raw_graph, v)) < Cardinality(lscc_nodes)

\* C6: compress_graph never produces an edge whose source equals its
\* target; a chain that loops back to its retained node yields no edge.
CompressCreatesNoSelfLoop ==
    GraphBuilt => \A e \in AllEdges(final_graph) : e.from_node # e.to_node

\* C7: for a strongly connected input G, compress_graph(compress_graph(G))
\* has the node set and the edges (endpoints, length, class, polyline) of
\* compress_graph(G).
CompressIsIdempotent ==
    (build_pc = "recompressed" /\ StronglyConnected(lscc_graph)) =>
        /\ recompressed.nodes = final_graph.nodes
        /\ EdgeFacts(recompressed) = EdgeFacts(final_graph)

\* C8: every edge compress_graph produces has the summed length of the
\* segments it replaces, which form a directed chain of the input from the
\* edge's source through interior nodes only to its target.
CompressedLengthIsChainSum ==
    GraphBuilt => EdgesAreChains(lscc_graph, final_graph)

\* A compressed edge between two distinct retained nodes that replaces at
\* least two segments.
CompressedLengthIsChainSumWitness ==
    /\ build_pc = "built"
    /\ \E e \in AllEdges(final_graph) :
          /\ e.from_node # e.to_node
          /\ Len(e.geometry) >= 3
          /\ e \notin AllEdges(lscc_graph)

\* C9 as stated: for each adjacent node pair of a retained way,
\* build_raw_graph adds both directions with mutually reversed polylines
\* when the way is bidirectional, only (u, v) when oneway is yes/1/true,
\* only (v, u) when oneway is -1, and no other edge for that pair.
OnewayPolicyEveryPair ==
    RawGraphBuilt =>
        \A k \in 1 .. Len(valid_ways) :
            \A i \in 1 .. Len(valid_ways[k].nodes) - 1 :
                OnewayPolicy(raw_graph, valid_ways[k], i)

\* C9: the same for each adjacent pair both of whose nodes are in the OSM
\* node table; a pair with a node the table lacks gets no edge.
OnewayPolicyPresentPairs ==
    RawGraphBuilt =>
        \A k \in 1 .. Len(valid_ways) :
            \A i \in 1 .. Len(valid_ways[k].nodes) - 1 :
                IF {valid_ways[k].nodes[i], valid_ways[k].nodes[i + 1]}
                       \subseteq osm_data.nodes
                THEN OnewayPolicy(raw_graph, valid_ways[k], i)
                ELSE WayPairEdges(raw_graph, valid_ways[k], i) = <<>>

\* A raw graph built from a reverse one-way way and a bidirectional way
\* that runs into a node the table lacks.
OnewayPolicyPresentPairsWitness ==
    /\ build_pc = "lscc"
    /\ \E a, b \in 1 .. Len(valid_ways) :
          /\ TagGet(valid_ways[a].tags, "oneway", "no") = "-1"
          /\ WayPairEdges(raw_graph, valid_ways[a], 1) # <<>>
          /\ "oneway" \notin DOMAIN valid_ways[b].tags
          /\ MissingNode \in SeqRange(valid_ways[b].nodes)
          /\ WayPairEdges(raw_graph, valid_ways[b], 1) # <<>>

-----------------------------------------------------------------------------
(* The obstruction resolver's claims *)

\* C10: after the resolver has processed any sequence of features in any
\* order, no edge key is both in the blocked set and a key of the penalty
\* map.
BlockedAndPenaltyDisjoint ==
    resolver_pc = "returned" => blocked \cap DOMAIN multipliers = {}

\* The feature the resolver is at, and what the claim calls it.
CurrentFeature == geometries[geom_index]

FeatureBlockType(f) ==
    TagGet(TagGet(f, "properties", EmptyDict), "blockType", "block")

\* The penalty property's number, as a set: empty when the property is
\* absent or null.
FeaturePenalty(f) ==
    TagGet(TagGet(f, "properties", EmptyDict), "penalty", {})

HasPenaltyProperty(f) == "penalty" \in DOMAIN TagGet(f, "properties", EmptyDict)

\* Every flood area reached the resolver as a flood feature.
FloodAreasAreFlood ==
    resolver_pc \notin {"idle", "request"} =>
        \A i \in 1 .. Len(flood_areas) :
            FeatureBlockType(geometries[Len(blocking_geometries) + i]) = "flood"

\* The classification of one resolver step; absent is the multiplier an
\* edge without an entry counts as, as a set (empty: no floor).
ClassifiedAs(absent) ==
    (resolver_pc = "loop" /\ geom_index <= Len(geometries)
       /\ CurrentFeature.well_formed) =>
        LET f == CurrentFeature
            flood == FeatureBlockType(f) = "flood"
            penalty == IF HasPenaltyProperty(f) \/ ~flood THEN FeaturePenalty(f)
                       ELSE {50}
        IN \A k \in f.covers :
              IF ~flood \/ \E p \in penalty : p >= 1000
              THEN k \in blocked'
              ELSE /\ k \in DOMAIN multipliers'
                   /\ \E p \in penalty :
                         multipliers'[k]
                            = IF k \in DOMAIN multipliers
                              THEN Max2(multipliers[k], p)
                              ELSE IF absent = {} THEN p
                              ELSE Max2(CHOOSE a \in absent : TRUE, p)

ClassifiedWithFloor ==
    (resolver_pc = "loop" /\ geom_index <= Len(geometries)
       /\ CurrentFeature.well_formed) =>
        LET f == CurrentFeature
            flood == FeatureBlockType(f) = "flood"
            penalty == IF HasPenaltyProperty(f) THEN FeaturePenalty(f) ELSE {50}
        IN \A k \in f.covers :
              IF ~flood \/ penalty = {} \/ \E p \in penalty : p >= 1000
              THEN k \in blocked'
              ELSE /\ k \in DOMAIN multipliers'
                   /\ \E p \in penalty :
                         multipliers'[k]
                            = Max2(IF k \in DOMAIN multipliers
                                   THEN multipliers[k] ELSE 10, p)

-----------------------------------------------------------------------------
(* Claims about the service *)

BothResolved ==
    /\ origin_resolved.node_id # 0 /\ dest_resolved.node_id # 0
    /\ route_pc \notin {"resolve_origin", "resolve_dest", "same_check"}

\* C12: a request whose origin and destination resolved to the same node is
\* answered with the same-endpoint error (HTTP 400), and neither the
\* obstruction resolver nor astar_search has taken a step for it.
SameEndpointFailsEarly ==
    (BothResolved /\ origin_resolved.node_id = dest_resolved.node_id) =>
        /\ route_pc = "done"
        /\ response = Response(400, "same_endpoint", <<>>, 0, 0)
        /\ resolver_pc = "idle" /\ geometries = <<>>
        /\ pc = "idle" /\ nodes_visited = 0 /\ result = NoResult

\* Two different inputs that resolved to one node, one of them by a snap.
SameEndpointFailsEarlyWitness ==
    /\ BothResolved /\ origin_resolved.node_id = dest_resolved.node_id
    /\ origin # destination
    /\ origin_resolved.snapped /\ ~dest_resolved.snapped
    /\ response.detail = "same_endpoint"

UnknownId(point) == "node_id" \in DOMAIN point /\ point.node_id \notin graph.nodes

\* astar_search has returned, or the service has answered
Answered == IF route_pc = "idle" THEN pc = "done" ELSE route_pc = "done"

AstarUnknownEndpoint ==
    (pc # "start" /\ route_pc = "idle"
       /\ (start_id \notin graph.nodes \/ end_id \notin graph.nodes)) =>
        /\ pc = "done"
        /\ result = PathResult(FALSE, <<>>, <<>>, 0, 0, <<>>, "unknown_endpoint", 0)
        /\ closed_set = {} /\ open_set = {} /\ g_score = EmptyDict

NoNodeExpanded == pc = "idle" /\ nodes_visited = 0 /\ closed_set = {}

\* C13 as stated: every request whose origin or destination is a node id
\* outside the graph is answered with the unknown-endpoint error.
UnknownEndpointAlwaysReported ==
    /\ AstarUnknownEndpoint
    /\ (route_pc = "done" /\ service = "ready"
          /\ (UnknownId(origin) \/ UnknownId(destination))) =>
            response.detail = "unknown_endpoint" /\ NoNodeExpanded

\* C13: astar_search returns the unknown-endpoint error, with no node
\* expanded and no scratch entry made, whenever its source or target is not
\* a node of the graph.  The service answers a request whose origin is such
\* an id, or whose origin resolved and whose destination is such an id,
\* with the unknown-endpoint error (HTTP 400) and never starts astar_search
\* for it; when the origin fails otherwise, that failure is the answer.
UnknownEndpointReported ==
    /\ AstarUnknownEndpoint
    /\ (route_pc = "done" /\ service = "ready"
          /\ (UnknownId(origin) \/ UnknownId(destination))) =>
            /\ NoNodeExpanded
            /\ response.status = 400
            /\ (UnknownId(origin) \/ origin_resolved.node_id # 0) =>
                  response.detail = "unknown_endpoint"
            /\ (~UnknownId(origin) /\ origin_resolved.node_id = 0) =>
                  response.detail = origin_resolved.error

\* astar_search returned for a known source and an unknown target.
UnknownEndpointReportedWitness ==
    /\ route_pc = "idle" /\ pc = "done"
    /\ start_id \in graph.nodes /\ end_id \notin graph.nodes
    /\ result.error = "unknown_endpoint"

\* C14: a search whose time budget ran out before it returned gives the
\* Timeout outcome, with the stats gathered so far.
ExpiredSearchTimesOut ==
    (pc = "done" /\ budget_expired) =>
        /\ ~result.success /\ result.error = "timeout"
        /\ result.stats.nodes_visited = nodes_visited

\* C15: no step of a query (endpoint resolution, nearest-node snap,
\* obstruction resolution, astar_search, the answer) changes the graph's
\* nodes and adjacency (and so its reverse adjacency) or its spatial
\* indices, whether the query succeeds or fails.
QueryLeavesGraphUnchanged ==
    [][route_pc # "startup" =>
          /\ graph' = graph
          /\ kdtree' = kdtree
          /\ strtree' = strtree]_vars

\* C16: the entries of the heap carry distinct counters, and the entry a
\* pass of the loop pops has the least f and, among the entries of that f,
\* the least counter (the one pushed first), whatever the node ids: the
\* pop order, and with it the returned path, is fixed by the inputs.
TiesPoppedInPushOrder ==
    [][/\ \A a, b \in open_set' : a[2] = b[2] => a = b
       /\ \A e \in open_set \ open_set' :
            \A o \in open_set :
               e[1] < o[1] \/ (e[1] = o[1] /\ e[2] <= o[2])]_vars

\* Two entries tie on f at the top of the heap, and the one pushed first
\* has the greater node id.
TiesPoppedInPushOrderWitness ==
    /\ pc = "loop" /\ open_set # {}
    /\ \E o \in open_set :
         LET e == heappop(open_set)
         IN /\ \A x \in open_set : e[1] <= x[1]
            /\ e[1] = o[1] /\ e[2] < o[2] /\ e[3] > o[3]

\* c_highway(class) * c_context(class, weather) in 1e-4, as get_weight
\* multiplies them
Coefficient(class, w) ==
    C_HIGHWAY[class]
      * (IF class \in DOMAIN C_CONTEXT[w] THEN C_CONTEXT[w][class] ELSE 100)

\* C17 as stated: 0.7 is strictly less than the product
\* c_highway(class) * c_context(class, weather) of every class, in the
\* weather of any query.
HeuristicFactorBelowMinimum ==
    \A class \in DOMAIN C_HIGHWAY :
        HeuristicFactor * 100 < Coefficient(class, weather)

\* C17: 0.7 is at most the product c_highway(class) *
\* c_context(class, weather) of every class, in the weather of any query,
\* and in normal weather equal to the least of them, motorway's 0.7 * 1.0.
HeuristicFactorIsMinimum ==
    /\ \A class \in DOMAIN C_HIGHWAY :
          HeuristicFactor * 100 <= Coefficient(class, weather)
    /\ weather = "normal" =>
          HeuristicFactor * 100 = Coefficient("motorway", weather)

\* A search has pushed an entry whose f holds a positive heuristic term.
HeuristicFactorIsMinimumWitness ==
    /\ pc = "loop" /\ weather = "normal"
    /\ \E e \in open_set :
         /\ e[3] \in DOMAIN g_score /\ e[1] > g_score[e[3]]
         /\ heuristic(e[3], end_id) = e[1] - g_score[e[3]]

\* The rows of the address table a text matches on graph g, best first
MatchingRows(g, text) ==
    SelectSeq(AddressTable, LAMBDA a : a[1] = text /\ a[2] \in g.nodes)

\* What the address rule asks of the resolution r of an address point
AddressRule(point, r) ==
    LET rows == MatchingRows(graph, point.address)
        top == rows[1]
    IN IF rows = <<>>
       THEN r.error = "geocode_miss" /\ r.node_id = 0
            /\ response = Response(400, "geocode_miss", <<>>, 0, 0)
       ELSE IF top[3] >= 80
       THEN r = ResolvedNode(top[2], "address_exact", FALSE)
       ELSE /\ r.error = "none" /\ r.input_type = "address_fuzzy" /\ r.snapped
            /\ r.node_id \in graph.nodes
            /\ \A m \in graph.nodes :
                 Dist2(r.node_id, NodeLat(top[2]), NodeLon(top[2]))
                    <= Dist2(m, NodeLat(top[2]), NodeLon(top[2]))

OriginWasResolved ==
    service = "ready" /\ route_pc \notin {"startup", "check", "resolve_origin"}

DestinationWasResolved ==
    /\ OriginWasResolved /\ origin_resolved.error = "none"
    /\ route_pc # "resolve_dest"

\* C18: an address endpoint is resolved from the best row of the index
\* alone: no row, a geocode miss (HTTP 400); a score of 80 or more, the
\* row's node as it is, not snapped; a lower score, a node nearest to the
\* row's coordinates, snapped.
AddressResolvedByScore ==
    /\ (OriginWasResolved /\ "address" \in DOMAIN origin) =>
          AddressRule(origin, origin_resolved)
    /\ (DestinationWasResolved /\ "address" \in DOMAIN destination) =>
          AddressRule(destination, dest_resolved)

\* A route between an address under the threshold and one at the threshold.
AddressResolvedByScoreWitness ==
    /\ route_pc = "done" /\ response.detail = "route"
    /\ origin = AddressPoint("ngo 79")
    /\ origin_resolved.input_type = "address_fuzzy"
    /\ destination = AddressPoint("cho")
    /\ dest_resolved.input_type = "address_exact"

\* The extract was fetched and build_graph_from_osm returned at line 435
\* (no valid way) or at line 444 (an empty LSCC).
StartupGraphEmpty ==
    /\ fetch_result = "data"
    /\ LET ways == filter_valid_ways(osm_data)
       IN \/ ways = <<>>
          \/ find_largest_scc(build_raw_graph(osm_data, ways)) = {}

\* C19: when the pipeline ends with an empty graph, startup has failed: the
\* service is not ready, and a route request is answered "not ready"
\* (HTTP 503), never resolved against the empty graph.
EmptyGraphFailsStartup ==
    (route_pc # "startup" /\ StartupGraphEmpty) =>
        /\ service # "ready"
        /\ origin_resolved = NoResolved
        /\ route_pc = "done" => response.status = 503

-----------------------------------------------------------------------------
(* Claims about the house-number interpolation *)

\* Rows of the street whose number is the numeral of n
Numbered(n) ==
    {i \in 1 .. Len(houses) : houses[i].house_number = <<"digits", n>>}

StreetNumbers ==
    {houses[i].house_number[2] :
        i \in {j \in 1 .. Len(houses) : houses[j].house_number[1] = "digits"}}

\* The rule for house_number with the fallback outcomes named by the two
\* arguments: exact, else between the nearest lower and upper numbers, else
\* the one of them that exists.
HouseNumberRule(method_lower, method_upper) ==
    LET below == {n \in StreetNumbers : n < house_number}
        above == {n \in StreetNumbers : n > house_number}
        At(i, method) ==
            /\ interpolated.lat = houses[i].lat
            /\ interpolated.lon = houses[i].lon
            /\ interpolated.method = method
    IN IF Numbered(house_number) # {}
       THEN \E i \in Numbered(house_number) : At(i, "exact")
       ELSE IF below # {} /\ above # {}
       THEN LET L == CHOOSE n \in below : \A m \in below : m <= n
                U == CHOOSE n \in above : \A m \in above : n <= m
            IN \E i \in Numbered(L), j \in Numbered(U) :
                 /\ interpolated.method = "interpolated"
                 /\ (interpolated.lat - houses[i].lat) * (U - L)
                       = (houses[j].lat - houses[i].lat) * (house_number - L)
                 /\ (interpolated.lon - houses[i].lon) * (U - L)
                       = (houses[j].lon - houses[i].lon) * (house_number - L)
       ELSE IF below # {}
       THEN \E i \in Numbered(CHOOSE n \in below : \A m \in below : m <= n) :
               At(i, method_lower)
       ELSE \E i \in Numbered(CHOOSE n \in above : \A m \in above : n <= m) :
               At(i, method_upper)

\* C20: on a street with at least one numbered house the call returns the
\* entry numbered N with method exact; else the point L + t * (U - L),
\* t = (N - L) / (U - L), between the nearest lower and upper entries with
\* method interpolated; else the one of L, U that exists with method
\* fallback.
InterpolationFollowsRule ==
    (interp_pc = "returned" /\ StreetNumbers # {}) =>
        HouseNumberRule("fallback", "fallback")

Asked88 ==
    /\ interp_pc = "returned" /\ house_number = 88
    /\ Len(houses) = 2
    /\ houses[1].house_number = <<"digits", 80>>
    /\ houses[2].house_number = <<"digits", 100>>

\* C21 as stated: house 88 between the houses 80 and 100 is placed at the
\* midpoint of their coordinates, with method interpolated.
House88AtMidpoint ==
    Asked88 =>
        /\ interpolated.method = "interpolated"
        /\ 2 * interpolated.lat = houses[1].lat + houses[2].lat
        /\ 2 * interpolated.lon = houses[1].lon + houses[2].lon

\* C21: house 88 between the houses 80 and 100 is placed two fifths of the
\* way from house 80 to house 100, t = (88 - 80) / (100 - 80), with method
\* interpolated.
House88AtTwoFifths ==
    Asked88 =>
        /\ interpolated.method = "interpolated"
        /\ interpolated.house_number = 88
        /\ 5 * (interpolated.lat - houses[1].lat)
              = 2 * (houses[2].lat - houses[1].lat)
        /\ 5 * (interpolated.lon - houses[1].lon)
              = 2 * (houses[2].lon - houses[1].lon)

\* House 80 at (0, 0), house 100 at (20, 30): house 88 at (8, 12).
House88AtTwoFifthsWitness ==
    /\ Asked88
    /\ houses[1].lat = 0 /\ houses[1].lon = 0
    /\ houses[2].lat = 20 /\ houses[2].lon = 30
    /\ interpolated.lat = 8 /\ interpolated.lon = 12

\* The nodes whose g_score one pass of the loop improves.
ImprovedNodes ==
    {v \in DOMAIN g_score' : v \notin DOMAIN g_score \/ g_score'[v] < g_score[v]}

\* C22: every pass of the loop that improves g(v) sets the predecessor and
\* the predecessor edge of v and pushes a new frontier entry (g' + h(v), seq, v),
\* also when v already has an entry in the open set.
EveryImprovementPushed ==
    [][pc = "loop" =>
         \A v \in ImprovedNodes :
            /\ v \notin closed_set'
            /\ came_from'[v] = heappop(open_set)[3]
            /\ came_from_edge'[v].to_node = v
            /\ \E e \in open_set' \ open_set :
                  /\ e[3] = v
                  /\ e[1] = g_score'[v] + heuristic(v, end_id)]_vars

\* C23: the path of a successful result starts at the source, ends at the
\* target and repeats no node; each consecutive pair is joined by the
\* recorded predecessor edge, an edge of the graph from path[i] to path[i+1];
\* the reported distance is the sum of the lengths of those edges.
ResultPathIsWalk ==
    (pc = "done" /\ result.success) =>
        LET path == result.path
            edges == result.edges
        IN /\ Len(path) >= 1
           /\ path[1] = start_id
           /\ path[Len(path)] = end_id
           /\ \A i, j \in 1 .. Len(path) : i # j => path[i] # path[j]
           /\ Len(edges) = Len(path) - 1
           /\ \A i \in 1 .. Len(path) - 1 :
                 /\ edges[i] = came_from_edge[path[i + 1]]
                 /\ came_from[path[i + 1]] = path[i]
                 /\ edges[i].from_node = path[i]
                 /\ edges[i].to_node = path[i + 1]
                 /\ edges[i] \in AllEdges(graph)
           /\ result.distance = SeqSum([i \in 1 .. Len(edges) |-> edges[i].length])

\* A path of three edges, 1 -> 2 -> 3 -> 4, of distance 3.
ResultPathIsWalkWitness ==
    /\ pc = "done" /\ result.success
    /\ result.path = <<1, 2, 3, 4>>
    /\ result.distance = 3

RECURSIVE StitchedPolyline(_, _, _)
\* The polylines of the first n edges, each oriented from the cursor
\* path[i], joined with a coinciding first point dropped.
StitchedPolyline(path, edges, n) ==
    IF n = 0 THEN <<>>
    ELSE LET acc == StitchedPolyline(path, edges, n - 1)
             e == edges[n]
             segment == IF path[n] = e.from_node THEN e.geometry
                        ELSE Reverse(e.geometry)
         IN IF acc # <<>> /\ acc[Len(acc)] = segment[1]
            THEN acc \o Tail(segment)
            ELSE acc \o segment

\* C24: the merged polyline of a successful route is the concatenation, in
\* path order, of each traversed edge's polyline oriented from the path
\* cursor, a coinciding first point of a later segment dropped; it starts at
\* the source node's point, ends at the target node's point and repeats no
\* point at a join.  (A search from a node to itself has no edge and an empty
\* polyline.)
MergedPolylineIsStitched ==
    (pc = "done" /\ result.success) =>
        LET path == result.path
            edges == result.edges
            geometry == result.geometry
        IN /\ geometry = StitchedPolyline(path, edges, Len(edges))
           /\ Len(path) = 1 => geometry = <<>>
           /\ Len(path) >= 2 =>
                 /\ geometry[1] = NodePoint(start_id)
                 /\ geometry[Len(geometry)] = NodePoint(end_id)
                 /\ Len(geometry) =
                       SeqSum([i \in 1 .. Len(edges) |-> Len(edges[i].geometry)])
                          - (Len(edges) - 1)
                 /\ \A k \in 1 .. Len(geometry) - 1 : geometry[k] # geometry[k + 1]

\* The route 1 -> 3 -> 4 over the edge 1 -> 3 whose polyline passes the
\* point of node 4: the polyline is 1, 4, 3, 4.
MergedPolylineIsStitchedWitness ==
    /\ pc = "done" /\ result.success
    /\ result.path = <<1, 3, 4>>
    /\ result.geometry = << NodePoint(1), NodePoint(4), NodePoint(3), NodePoint(4) >>

\* C25: for the same source, target and overlay, the weighted cost of the
\* path returned in flood is at least the weighted cost of the path returned
\* in normal weather.
FloodCostNotBelowNormal ==
    (pc = "done" /\ result.success /\ weather = "flood") =>
        \A c \in normal_cost : ReturnedCost >= c

FetchReturned == route_pc \notin {"fetch", "fetch_try", "fetch_parse"}

AnsweredWith200(i) == endpoint_replies[i] \in {"ok", "bad_json"}

AllEndpointsFailed ==
    /\ endpoints_tried # <<>>
    /\ \A i \in 1 .. Len(OVERPASS_ENDPOINTS) : ~AnsweredWith200(i)

\* C26: without a cache hit fetch_from_overpass posts to the endpoints in
\* list order and stops at the first that answers with status 200; when all
\* fail it returns no data and writes no cache file, startup leaves the
\* service unset and every later request is rejected as not ready.
FetchTriesEndpointsInOrder ==
    /\ \E k \in 0 .. Len(OVERPASS_ENDPOINTS) :
          endpoints_tried = SubSeq(OVERPASS_ENDPOINTS, 1, k)
    /\ \A j \in 1 .. Len(endpoints_tried) - 1 : ~AnsweredWith200(j)
    /\ (route_pc # "fetch_try" /\ endpoints_tried # <<>>) =>
          \/ AnsweredWith200(Len(endpoints_tried))
          \/ Len(endpoints_tried) = Len(OVERPASS_ENDPOINTS)
    /\ (FetchReturned /\ AllEndpointsFailed) =>
          /\ fetch_result = "none"
          /\ cache_file = {}
          /\ route_pc # "startup" => service = "none"
          /\ route_pc = "done" =>
                response.status = 503 /\ response.detail = "not_ready"

\* The first endpoint answers 500, the second raises, the third answers 500:
\* all three were tried and a request got 503.
FetchTriesEndpointsInOrderWitness ==
    /\ endpoint_replies = <<"error_status", "exception", "error_status">>
    /\ endpoints_tried = OVERPASS_ENDPOINTS
    /\ cache_file = {}
    /\ route_pc = "done"
    /\ response.status = 503

\* C27: the duration a route response reports is the duration astar_search
\* computed, the sum over the path's edges of length / speed, in seconds.
FacadeDurationIsSearchDuration ==
    (route_pc = "done" /\ response.detail = "route") =>
        /\ result.duration =
              SeqSum([i \in 1 .. Len(result.edges) |->
                         result.edges[i].length * 60 * (8400 \div result.edges[i].speed)])
        /\ response.duration = result.duration

RECURSIVE ShortestLengths(_, _, _)
\* The least length of a directed path of at most k edges from s to each
\* node such a path reaches.
ShortestLengths(g, s, k) ==
    IF k = 0 THEN [v \in {s} |-> 0]
    ELSE LET d == ShortestLengths(g, s, k - 1)
             cand(v) == (IF v \in DOMAIN d THEN {d[v]} ELSE {})
                           \cup {d[e.from_node] + e.length :
                                   e \in {x \in AllEdges(g) :
                                            x.to_node = v /\ x.from_node \in DOMAIN d}}
         IN [v \in {x \in g.nodes : cand(x) # {}} |-> SetMin(cand(v))]

ShortestLength(g, s) == ShortestLengths(g, s, Cardinality(g.nodes))

\* C28: between any two retained nodes the compressed graph has the same
\* shortest distance (sum of edge lengths) as the strongly connected graph
\* it was compressed from.
CompressionPreservesDistances ==
    build_pc = "built" =>
        \A s \in final_graph.nodes :
            LET before == ShortestLength(lscc_graph, s)
                after == ShortestLength(final_graph, s)
            IN \A t \in final_graph.nodes :
                  /\ t \in DOMAIN before <=> t \in DOMAIN after
                  /\ t \in DOMAIN after => after[t] = before[t]

\* The nodes the chain walk passes from start_node along edge.
WalkedNodes(g, start_node, edge) ==
    ChainWalk(g, [path_nodes |-> <<start_node, edge.to_node>>,
                  geometry |-> edge.geometry, total_length |-> edge.length],
              edge.to_node, start_node).path_nodes

HasSelfLoop(g, n) == \E e \in AllEdges(g) : e.from_node = n /\ e.to_node = n

\* The walk ends at a retained node or at an interior node whose edges all
\* lead back to the node it was entered from.
WalkStopsProperly(g, path_nodes) ==
    LET end_node == path_nodes[Len(path_nodes)]
        prev == path_nodes[Len(path_nodes) - 1]
    IN \/ end_node \in g.nodes \ {n \in g.nodes : IsDegree2(g, n)}
       \/ \A e \in AllEdges(g) : e.from_node = end_node => e.to_node = prev

\* The number of times the walk passes node n after its start.
Visits(path_nodes, n) ==
    Cardinality({i \in 2 .. Len(path_nodes) : path_nodes[i] = n})

\* Every chain walk of compress_graph(g), from a retained node along one of
\* its edges, stops properly and passes each interior node at most once; when
\* `loops` is set, at most twice if the walk passes an interior node that
\* has an edge to itself.
WalkRule(g, loops) ==
    \A start_node \in g.nodes :
        ~IsDegree2(g, start_node) =>
            \A k \in 1 .. Len(get_neighbors(g, start_node)) :
                LET path_nodes ==
                        WalkedNodes(g, start_node, get_neighbors(g, start_node)[k])
                    looped == \E i \in 2 .. Len(path_nodes) :
                                 /\ IsDegree2(g, path_nodes[i])
                                 /\ HasSelfLoop(g, path_nodes[i])
                IN /\ WalkStopsProperly(g, path_nodes)
                   /\ \A n \in g.nodes :
                         IsDegree2(g, n) =>
                            Visits(path_nodes, n) <= IF loops /\ looped THEN 2 ELSE 1

\* C29 as stated: on every graph compress_graph is run on, the chain walk
\* from any retained node along any outgoing edge visits each interior node
\* at most once and stops at a retained node or at an interior node with no
\* onward edge.
ChainWalkVisitsOnce ==
    /\ build_pc = "built" => WalkRule(lscc_graph, FALSE)
    /\ build_pc = "recompressed" => WalkRule(final_graph, FALSE)

\* C29: on every graph compress_graph is run on, the chain walk from any
\* retained node along any outgoing edge terminates and stops at a retained
\* node or at an interior node with no onward edge; it visits each interior
\* node at most once unless it passes an interior node that has an edge to
\* itself, and then at most twice.
ChainWalkVisitsOnceUnlessLoop ==
    /\ build_pc = "built" => WalkRule(lscc_graph, TRUE)
    /\ build_pc = "recompressed" => WalkRule(final_graph, TRUE)

\* The ring 1, 2, 3, 1 with the spur 1, 4: the walk from node 1 passes the
\* interior nodes 2 and 3 and stops at node 1.
ChainWalkVisitsOnceUnlessLoopWitness ==
    /\ build_pc = "built"
    /\ ~IsDegree2(lscc_graph, 1)
    /\ \E k \in 1 .. Len(get_neighbors(lscc_graph, 1)) :
          WalkedNodes(lscc_graph, 1, get_neighbors(lscc_graph, 1)[k]) = <<1, 2, 3, 1>>

\* C30: astar_search terminates and expands each node at most once: every
\* pass of the loop either closes a node that was not closed or drops a heap
\* entry, a closed node stays closed and keeps its predecessor, and
\* nodes_visited never exceeds the number of graph nodes.
EachNodeExpandedOnce ==
    [][pc = "loop" =>
         /\ closed_set \subseteq closed_set'
         /\ \A v \in closed_set :
               /\ (v \in DOMAIN came_from) = (v \in DOMAIN came_from')
               /\ v \in DOMAIN came_from =>
                     /\ came_from'[v] = came_from[v]
                     /\ came_from_edge'[v] = came_from_edge[v]
         /\ nodes_visited' > nodes_visited =>
               /\ nodes_visited' = nodes_visited + 1
               /\ open_set # {}
               /\ heappop(open_set)[3] \notin closed_set
         /\ \/ pc' = "done"
            \/ Cardinality(closed_set') = Cardinality(closed_set) + 1
            \/ /\ closed_set' = closed_set
               /\ Cardinality(open_set') < Cardinality(open_set)
         /\ Cardinality(closed_set') <= nodes_visited'
         /\ nodes_visited' <= Cardinality(graph.nodes)]_vars

\* Both ends of an edge are closed and the edge would improve its target:
\* the target was closed before its cheaper predecessor was expanded, and
\* kept its predecessor.
EachNodeExpandedOnceWitness ==
    /\ pc = "done"
    /\ \E e \in AllEdges(graph) :
          /\ e.from_node \in closed_set /\ e.to_node \in closed_set
          /\ <<e.from_node, e.to_node>> \notin blocked_edges
          /\ g_score[e.from_node]
                + edge_weight(e, <<e.from_node, e.to_node>>, weather, penalty_map)
                < g_score[e.to_node]
          /\ e.to_node \in DOMAIN came_from
          /\ came_from[e.to_node] # e.from_node

=============================================================================
